---- MODULE Spec2Model ----
(***************************************************************************)
(* Model of data_collector/utilities/request.py:                           *)
(*   ExceptionDescriptor  - the per-client error journal                   *)
(*   RequestMetrics       - the shared, lock-protected metrics collector   *)
(*   Request              - the retrying HTTP/SOAP client                  *)
(*                                                                         *)
(* Specifications:                                                         *)
(*   Spec           - one Request making get/post calls, attempt by attempt *)
(*   SpecTermination - the first get/post call of a Request, every         *)
(*                    transport invocation and sleep returning              *)
(*   SpecAsync      - the same Request making async_get/async_post calls    *)
(*   SpecSoap       - one Request making soap_call calls                    *)
(*   SpecCalls      - one Request making several calls one after the other  *)
(*   SpecSession    - one Request whose session state is set between calls  *)
(*   SpecTiming     - the timing figures computed from a list of samples    *)
(*   SpecStatuses   - get/post against an endpoint answering every status   *)
(*   SpecRetryList  - get/post for each kind of retry_on_status argument    *)
(*   SpecExceptions - get/post against every class of transport exception   *)
(*   SpecJournal    - add_error calls on one journal                        *)
(*   SpecMetrics    - one collector driven by sequential record_request /   *)
(*                    record_error calls                                    *)
(*   SpecInstances  - two Requests sharing a collector, called by           *)
(*                    interleaved coroutines                                *)
(*   SpecReservoir  - one collector recording latencies that are all        *)
(*                    different                                             *)
(*   SpecThreads    - one collector called by several threads, the counter  *)
(*                    updates split into load and store                     *)
(*   SpecThreadsFair - threads calling the collector under fair scheduling  *)
(***************************************************************************)
EXTENDS Integers, Sequences, FiniteSets, TLC

VARIABLES
    metrics,   \* the RequestMetrics object (all its fields, one record)
    hist,      \* history: the record_request / record_error calls made so far
    req,       \* the Request object (all its fields, one record)
    call,      \* the frame of the get/post call in progress (locals, position)
    now,       \* the value datetime.now() last returned
    trace,     \* history: transport invocations and sleeps of the latest call
    result,    \* history: what the latest call returned
    req0,      \* history: the Request object as the latest call found it
    calls,     \* history: number of calls started on the Request
    invocations, \* history: number of transport invocations made for the Request
    lock,      \* RequestMetrics._lock: 0 when free, else the thread holding it
    th,        \* per thread: position in the collector method it is running, locals
    lin,       \* history: the collector after the calls so far, applied one at a time
    started    \* history: number of collector calls the threads have started

metricsVars == <<metrics, hist>>
clientVars == <<req, call, now, trace, result, req0, calls, invocations>>
threadVars == <<lock, th, lin, started>>
vars == <<metrics, hist, req, call, now, trace, result, req0, calls, invocations,
          lock, th, lin, started>>

----------------------------------------------------------------------------
(* Bounds of the model *)

\* RequestMetrics.RESERVOIR_SIZE is 1000 in the source (request.py:105); the
\* model runs the same code with a small capacity so that a full buffer and
\* the replacement draw are reached.
RESERVOIR_SIZE == 2
\* calls made in SpecMetrics, SpecJournal and SpecSoap
MaxOps == 3
\* largest value the clock reaches
MaxClock == 1
\* largest retries a Request is built with
MaxRetries == 3
\* get/post/soap_call calls made on the Request in Spec
MaxCalls == 1
\* transport invocations made for the Request in Spec
MaxInvocations == 4
\* threads sharing the collector in SpecThreads
NumThreads == 2
\* collector calls the threads make in SpecThreads, all threads together
MaxThreadOps == 3
\* largest max_target_failures / min_distinct_proxies a collector is built with
MaxThreshold == 2
\* samples in a timing list in SpecTiming, recordings in SpecReservoir
MaxSamples == 4

----------------------------------------------------------------------------
(* Values *)

None == "None"

\* RequestErrorType
TIMEOUT == "timeout"
PROXY == "proxy"
BAD_STATUS == "bad_status_code"
REDIRECT == "redirect"
REQUEST == "request"
\* RequestErrorType.OTHER (OTHER is a reserved word of TLA+)
OTHER_TYPE == "other"
RequestErrorType == {TIMEOUT, PROXY, BAD_STATUS, REDIRECT, REQUEST, OTHER_TYPE}

Domains == {"a.com", "b.com"}
Urls == {"https://a.com/page", "https://b.com/data"}
\* urlparse(url).netloc
Netloc(url) ==
    CASE url = "https://a.com/page" -> "a.com"
      [] url = "https://b.com/data" -> "b.com"
      [] OTHER -> ""

Is2xx(status_code) == 200 <= status_code /\ status_code < 300

----------------------------------------------------------------------------
(* Python dict helpers: a dict is a function whose domain is its key set *)

EmptyDict == [k \in {} |-> 0]
DictPut(d, k, v) == [x \in (DOMAIN d) \cup {k} |-> IF x = k THEN v ELSE d[x]]
DictPop(d, k) == [x \in (DOMAIN d) \ {k} |-> d[x]]
DictGet(d, k, default) == IF k \in DOMAIN d THEN d[k] ELSE default

RECURSIVE SumOver(_, _)
SumOver(f, S) ==
    IF S = {} THEN 0
    ELSE LET x == CHOOSE y \in S : TRUE IN f[x] + SumOver(f, S \ {x})

Min(a, b) == IF a < b THEN a ELSE b

\* sum of the values of a dict
DictSum(d) == SumOver(d, DOMAIN d)

----------------------------------------------------------------------------
(* RequestMetrics *)

\* RequestMetrics.__init__
NewRequestMetrics(max_target_failures, min_distinct_proxies) ==
    [ request_count         |-> 0,
      err                   |-> [k \in RequestErrorType |-> 0],
      domain_timings        |-> EmptyDict,
      domain_request_counts |-> EmptyDict,
      domain_status_codes   |-> EmptyDict,
      proxy_stats           |-> EmptyDict,
      target_failures       |-> EmptyDict,
      max_target_failures   |-> max_target_failures,
      min_distinct_proxies  |-> min_distinct_proxies ]

\* proxy or "direct"
ProxyKey(proxy) == IF proxy = None \/ proxy = "" THEN "direct" ELSE proxy

\* ReservoirStep without the capacity check: every sample is appended
ReservoirStep_Unbounded(reservoir, sample, j) == Append(reservoir, sample)

\* One reservoir step: append while the buffer is not full, otherwise
\* overwrite slot j (0-based) when j < RESERVOIR_SIZE.  j is the value
\* random.randint(0, n - 1) returned.
ReservoirStep(reservoir, sample, j) ==
    IF Len(reservoir) < RESERVOIR_SIZE
    THEN Append(reservoir, sample)
    ELSE IF j < RESERVOIR_SIZE
         THEN [reservoir EXCEPT ![j + 1] = sample]
         ELSE reservoir

\* _record_target_failure without the proxy key added to the entry
record_target_failure_NoProxy(m, domain, proxy_key) ==
    LET entry == DictGet(m.target_failures, domain, [failures |-> 0, proxies |-> {}])
    IN [m EXCEPT !.target_failures =
            DictPut(@, domain, [failures |-> entry.failures + 1,
                                proxies  |-> entry.proxies])]

\* _record_target_failure (runs with the lock held)
record_target_failure(m, domain, proxy_key) ==
    LET entry == DictGet(m.target_failures, domain, [failures |-> 0, proxies |-> {}])
    IN [m EXCEPT !.target_failures =
            DictPut(@, domain, [failures |-> entry.failures + 1,
                                proxies  |-> entry.proxies \cup {proxy_key}])]

\* record_request: self.request_count += 1
RR_Count(m) == [m EXCEPT !.request_count = @ + 1]

\* record_request: domain timing reservoir
RR_DomainTiming(m, domain, response_time_ms, j) ==
    LET n == DictGet(m.domain_request_counts, domain, 0) + 1
        reservoir == DictGet(m.domain_timings, domain, <<>>)
    IN [m EXCEPT !.domain_request_counts = DictPut(@, domain, n),
                 !.domain_timings = DictPut(@, domain,
                                        ReservoirStep(reservoir, response_time_ms, j))]

\* record_request: domain status codes
RR_StatusCodes(m, domain, status_code) ==
    LET codes == DictGet(m.domain_status_codes, domain, EmptyDict)
    IN [m EXCEPT !.domain_status_codes =
            DictPut(@, domain, DictPut(codes, status_code, DictGet(codes, status_code, 0) + 1))]

\* record_request: per-proxy stats
RR_ProxyStats(m, proxy, status_code, response_time_ms, j) ==
    LET proxy_key == ProxyKey(proxy)
        pstat == DictGet(m.proxy_stats, proxy_key,
                         [count |-> 0, success |-> 0, timings |-> <<>>])
    IN [m EXCEPT !.proxy_stats = DictPut(@, proxy_key,
            [count   |-> pstat.count + 1,
             success |-> IF Is2xx(status_code) THEN pstat.success + 1 ELSE pstat.success,
             timings |-> ReservoirStep(pstat.timings, response_time_ms, j)])]

\* RR_Breaker with a success clearing the entries of every domain
RR_Breaker_ClearsAll(m, domain, proxy, status_code) ==
    IF Is2xx(status_code)
    THEN [m EXCEPT !.target_failures = EmptyDict]
    ELSE record_target_failure(m, domain, ProxyKey(proxy))

\* RR_Breaker without the reset on success
RR_Breaker_NoReset(m, domain, proxy, status_code) ==
    IF Is2xx(status_code) THEN m ELSE record_target_failure(m, domain, ProxyKey(proxy))

\* record_request: circuit breaker, reset on success (2xx)
RR_Breaker(m, domain, proxy, status_code) ==
    IF Is2xx(status_code)
    THEN [m EXCEPT !.target_failures = DictPop(@, domain)]
    ELSE record_target_failure(m, domain, ProxyKey(proxy))

\* record_request: bad_status_code_err for non-2xx
RR_BadStatus(m, status_code) ==
    IF ~Is2xx(status_code) THEN [m EXCEPT !.err[BAD_STATUS] = @ + 1] ELSE m

\* record_request, the part after the request counter
RR_Rest(m, domain, proxy, status_code, response_time_ms, jd, jp) ==
    RR_BadStatus(
      RR_Breaker(
        RR_ProxyStats(
          RR_StatusCodes(
            RR_DomainTiming(m, domain, response_time_ms, jd),
            domain, status_code),
          proxy, status_code, response_time_ms, jp),
        domain, proxy, status_code),
      status_code)

\* RequestMetrics.record_request; jd and jp are the two random.randint draws
record_request(m, domain, proxy, status_code, response_time_ms, jd, jp) ==
    RR_Rest(RR_Count(m), domain, proxy, status_code, response_time_ms, jd, jp)

\* DomainDraws with the index drawn among the occupied slots only
DomainDraws_WithinBuffer(m, domain) ==
    IF Len(DictGet(m.domain_timings, domain, <<>>)) < RESERVOIR_SIZE
    THEN {0}
    ELSE 0 .. Len(DictGet(m.domain_timings, domain, <<>>)) - 1

\* the values random.randint(0, n - 1) can return for the domain reservoir
\* (no draw is made while the buffer is not full)
DomainDraws(m, domain) ==
    IF Len(DictGet(m.domain_timings, domain, <<>>)) < RESERVOIR_SIZE
    THEN {0}
    ELSE 0 .. DictGet(m.domain_request_counts, domain, 0)

\* the values random.randint(0, pstat["count"] - 1) can return
ProxyDraws(m, proxy) ==
    LET pstat == DictGet(m.proxy_stats, ProxyKey(proxy),
                         [count |-> 0, success |-> 0, timings |-> <<>>])
    IN IF Len(pstat.timings) < RESERVOIR_SIZE THEN {0} ELSE 0 .. pstat.count

\* record_error: hasattr(self, f"{error_type}_err")
HasCounter(error_type) == error_type \in RequestErrorType

\* record_error: the counter increment
RE_Counter(m, error_type) ==
    IF HasCounter(error_type) THEN [m EXCEPT !.err[error_type] = @ + 1] ELSE m

\* RequestMetrics.record_error
record_error(m, domain, proxy, error_type) ==
    record_target_failure(RE_Counter(m, error_type), domain, ProxyKey(proxy))

\* RequestMetrics.is_target_unhealthy
is_target_unhealthy(m, url) ==
    LET domain == Netloc(url)
    IN IF domain \notin DOMAIN m.target_failures
       THEN FALSE
       ELSE /\ m.target_failures[domain].failures >= m.max_target_failures
            /\ Cardinality(m.target_failures[domain].proxies) >= m.min_distinct_proxies

\* num / den rounded to the nearest integer, ties to even (Python round)
RoundHalfEven(num, den) ==
    LET q == num \div den
        r == num % den
    IN IF 2 * r < den THEN q
       ELSE IF 2 * r > den THEN q + 1
       ELSE IF q % 2 = 0 THEN q ELSE q + 1

(* Timing samples are milliseconds with one decimal, kept in tenths: 15 is *)
(* 1.5 ms.  The values _percentile and _compute_timing return are whole ms. *)

\* sorted(data)
Sorted(data) == SortSeq(data, LAMBDA a, b : a < b)

RECURSIVE SeqSum(_)
\* sum(timings)
SeqSum(data) == IF data = <<>> THEN 0 ELSE Head(data) + SeqSum(Tail(data))

\* _percentile taking the sample at the index, without rounding it (in tenths)
percentile_Unrounded(data, pct) ==
    IF data = <<>> THEN 0
    ELSE LET sorted_data == Sorted(data)
             idx == (Len(sorted_data) * pct) \div 100
         IN sorted_data[(IF idx < Len(sorted_data) - 1 THEN idx ELSE Len(sorted_data) - 1) + 1]

\* RequestMetrics._percentile; pct is the percentage (0.95 is 95), idx the
\* 0-based index int(len * pct) clamped to len - 1
percentile(data, pct) ==
    IF data = <<>> THEN 0
    ELSE LET sorted_data == Sorted(data)
             idx == (Len(sorted_data) * pct) \div 100
             clamped == IF idx < Len(sorted_data) - 1 THEN idx ELSE Len(sorted_data) - 1
         IN RoundHalfEven(sorted_data[clamped + 1], 10)

\* RequestMetrics._compute_timing
compute_timing(timings) ==
    IF timings = <<>> THEN [avg_ms |-> 0, p50_ms |-> 0, p95_ms |-> 0, p99_ms |-> 0]
    ELSE [avg_ms |-> RoundHalfEven(SeqSum(timings), 10 * Len(timings)),
          p50_ms |-> percentile(timings, 50),
          p95_ms |-> percentile(timings, 95),
          p99_ms |-> percentile(timings, 99)]

\* log_stats: total_errors
TotalErrors(m) == SumOver(m.err, RequestErrorType)

\* log_stats: round(error_rate, 2), in hundredths of a percent
ErrorRateHundredths(total_errors, request_count) ==
    IF request_count > 0 THEN RoundHalfEven(total_errors * 10000, request_count) ELSE 0

\* log_stats: sum(v for k, v in codes.items() if 200 <= k < 300)
SuccessOf(codes) == SumOver(codes, {k \in DOMAIN codes : Is2xx(k)})

\* RequestMetrics.log_stats: the counters of the returned snapshot
log_stats(m) ==
    [ total_requests     |-> m.request_count,
      total_errors       |-> TotalErrors(m),
      error_rate_percent |-> ErrorRateHundredths(TotalErrors(m), m.request_count),
      error_breakdown    |-> [k \in {a \in RequestErrorType : m.err[a] > 0} |-> m.err[k]],
      by_domain          |-> [d \in DOMAIN m.domain_timings |->
                                LET codes == DictGet(m.domain_status_codes, d, EmptyDict)
                                IN [count        |-> DictGet(m.domain_request_counts, d, 0),
                                    success      |-> SuccessOf(codes),
                                    status_codes |-> codes]],
      by_proxy           |-> [k \in DOMAIN m.proxy_stats |->
                                [count   |-> m.proxy_stats[k].count,
                                 success |-> m.proxy_stats[k].success]] ]

----------------------------------------------------------------------------
(* ExceptionDescriptor: the journal is a dict keyed by datetime.now(), kept *)
(* here as the sequence of its items in the dict's iteration order        *)

\* the values datetime.now() can return next: the clock never goes back
ClockReads(t) == {x \in {t, t + 1} : x <= MaxClock}

\* ExceptionDescriptor.add_error; t is the value datetime.now() returned.
\* Assigning to a key the dict already holds replaces the value in place.
add_error(errors, t, error_type, message, url) ==
    LET entry == [time |-> t, type |-> error_type, message |-> message, url |-> url]
    IN IF \E i \in 1 .. Len(errors) : errors[i].time = t
       THEN [i \in 1 .. Len(errors) |-> IF errors[i].time = t THEN entry ELSE errors[i]]
       ELSE Append(errors, entry)

\* ExceptionDescriptor.get_last_error, as <<entry>> or <<>> for None
get_last_error(errors) ==
    IF Len(errors) = 0 THEN <<>> ELSE <<errors[Len(errors)]>>

\* has_errors_after with the cutoff itself counted as after
has_errors_after_Inclusive(errors, timestamp) ==
    \E i \in 1 .. Len(errors) : errors[i].time >= timestamp

\* ExceptionDescriptor.has_errors_after
has_errors_after(errors, timestamp) ==
    \E i \in 1 .. Len(errors) : errors[i].time > timestamp

----------------------------------------------------------------------------
(* Request *)

\* _NO_RETRY_STATUSES
NO_RETRY_STATUSES == {401, 403, 404}
\* the default of retry_on_status
DEFAULT_RETRY_ON_STATUS == {429, 500, 502, 503, 504}

\* Request.__init__; retry_on_status is the argument (<<>> for None, <<S>> for
\* a list with the codes S), has_metrics tells whether a collector was passed.
\* "x or default" takes the default for None and for the empty list.
NewRequest(retries, backoff_factor, retry_on_status, save_responses, save_dir, has_metrics) ==
    [ retries           |-> retries,
      backoff_factor    |-> backoff_factor,
      retry_on_status   |-> IF retry_on_status = <<>> \/ retry_on_status[1] = {}
                            THEN DEFAULT_RETRY_ON_STATUS
                            ELSE retry_on_status[1],
      \* history: the retry_on_status argument as the caller passed it
      configured        |-> retry_on_status,
      save_responses    |-> save_responses,
      save_dir          |-> save_dir,
      has_metrics       |-> has_metrics,
      \* session state; auth is <<>> for None and <<pair>> for a pair set
      headers           |-> EmptyDict,
      cookies           |-> EmptyDict,
      auth              |-> <<>>,
      proxy             |-> None,
      errors            |-> <<>>,
      request_count     |-> 0,
      err               |-> [k \in RequestErrorType |-> 0],
      response          |-> <<>>,
      last_request_url  |-> None,
      last_request_time |-> <<>> ]

\* Request.set_headers: self._headers = dict(headers), and so on with
\* set_cookies, set_headers writing to another field
set_headers_IntoCookies(r, headers) == [r EXCEPT !.cookies = headers]

\* Request.set_headers: self._headers = dict(headers)
set_headers(r, headers) == [r EXCEPT !.headers = headers]

\* Request.reset_headers
reset_headers(r) == [r EXCEPT !.headers = EmptyDict]

\* Request.set_cookies
set_cookies(r, cookies) == [r EXCEPT !.cookies = cookies]

\* Request.reset_cookies
reset_cookies(r) == [r EXCEPT !.cookies = EmptyDict]

\* Request.set_auth
set_auth(r, username, password) == [r EXCEPT !.auth = <<<<username, password>>>>]

\* Request.set_proxy; proxy_config is a proxy URL or None
set_proxy(r, proxy_config) == [r EXCEPT !.proxy = proxy_config]

\* messages are a text followed by a number (num = 0: no number), so that
\* the substring tests of is_blocked / is_server_down can be computed
HttpMessage(status) == [text |-> "HTTP ", num |-> status]

\* _record_error that also counts the failed attempt as a request
Request_record_error_Counting(r, t, error_type, message, url) ==
    [r EXCEPT !.errors = add_error(@, t, error_type, message, url),
              !.err[error_type] = @ + 1,
              !.request_count = @ + 1]

\* Request._record_error; t is the value datetime.now() returned in add_error
Request_record_error(r, t, error_type, message, url) ==
    [r EXCEPT !.errors = add_error(@, t, error_type, message, url),
              !.err[error_type] = @ + 1]

\* Request._get_proxy_key (the proxy URLs of the model are already host:port)
get_proxy_key(r) == IF r.proxy = None \/ r.proxy = "" THEN None ELSE r.proxy

\* isinstance(exc, base) for the exception classes the transport raises
ExcBases(cls) ==
    {"Exception"} \cup
    CASE cls = "ReadTimeout"      -> {"ReadTimeout", "TimeoutException", "HTTPError"}
      [] cls = "ConnectError"     -> {"ConnectError", "HTTPError"}
      [] cls = "ProxyError"       -> {"ProxyError", "HTTPError"}
      [] cls = "TooManyRedirects" -> {"TooManyRedirects", "HTTPError"}
      [] cls = "DecodingError"    -> {"DecodingError", "HTTPError"}
      [] OTHER                    -> {cls}

\* _classify_exception with timeouts taken as not retryable
classify_exception_TimeoutFatal(exc) ==
    IF "TimeoutException" \in ExcBases(exc.cls)
        THEN [type |-> TIMEOUT, retryable |-> FALSE]
    ELSE IF "ConnectError" \in ExcBases(exc.cls) \/ "ProxyError" \in ExcBases(exc.cls)
        THEN [type |-> PROXY, retryable |-> TRUE]
    ELSE [type |-> OTHER_TYPE, retryable |-> FALSE]

\* Request._classify_exception
classify_exception(exc) ==
    IF "TimeoutException" \in ExcBases(exc.cls)
        THEN [type |-> TIMEOUT, retryable |-> TRUE]
    ELSE IF "ConnectError" \in ExcBases(exc.cls) \/ "ProxyError" \in ExcBases(exc.cls)
        THEN [type |-> PROXY, retryable |-> TRUE]
    ELSE IF "TooManyRedirects" \in ExcBases(exc.cls)
        THEN [type |-> REDIRECT, retryable |-> FALSE]
    ELSE IF "HTTPError" \in ExcBases(exc.cls)
        THEN [type |-> REQUEST, retryable |-> FALSE]
    ELSE [type |-> OTHER_TYPE, retryable |-> FALSE]

\* Request.has_errors
has_errors(r) ==
    IF r.last_request_time = <<>> THEN FALSE
    ELSE has_errors_after(r.errors, r.last_request_time[1])

\* "forcibly closed" in msg
HasForciblyClosed(message) == message.text = "forcibly closed"

RECURSIVE Digits(_)
\* str(n) for n >= 0, as the sequence of its decimal digits
Digits(n) == IF n < 10 THEN <<n>> ELSE Append(Digits(n \div 10), n % 10)

\* str(code) in msg: the digits of code occur in a row in the number of the
\* message (the texts of the model hold no digits)
HasCode(message, code) ==
    /\ message.num # 0
    /\ LET d == Digits(message.num)
           c == Digits(code)
       IN \E i \in 1 .. Len(d) - Len(c) + 1 : SubSeq(d, i, i + Len(c) - 1) = c

\* is_blocked without the test for 429
is_blocked_Without429(r) ==
    LET last == get_last_error(r.errors)
    IN IF last = <<>> THEN FALSE
       ELSE \/ HasCode(last[1].message, 401)
            \/ HasCode(last[1].message, 403)
            \/ HasForciblyClosed(last[1].message)

\* Request.is_blocked
is_blocked(r) ==
    LET last == get_last_error(r.errors)
    IN IF last = <<>> THEN FALSE
       ELSE \/ HasCode(last[1].message, 401)
            \/ HasCode(last[1].message, 403)
            \/ HasCode(last[1].message, 429)
            \/ HasForciblyClosed(last[1].message)

\* Request.is_proxy_error
is_proxy_error(r) ==
    LET last == get_last_error(r.errors)
    IN IF last = <<>> THEN FALSE ELSE last[1].type = PROXY

\* is_timeout looking only at errors recorded since the last call started
is_timeout_SinceLastCall(r) ==
    LET last == get_last_error(r.errors)
    IN IF last = <<>> THEN FALSE ELSE has_errors(r) /\ last[1].type = TIMEOUT

\* Request.is_timeout
is_timeout(r) ==
    LET last == get_last_error(r.errors)
    IN IF last = <<>> THEN FALSE ELSE last[1].type = TIMEOUT

\* Request.is_server_down
is_server_down(r) ==
    LET last == get_last_error(r.errors)
    IN IF last = <<>> THEN FALSE
       ELSE \E code \in 500 .. 599 : HasCode(last[1].message, code)

\* should_abort with the fallback branch returning False
should_abort_FallbackFalse(r, proxy_on) ==
    IF ~has_errors(r) THEN FALSE
    ELSE IF proxy_on /\ (is_blocked(r) \/ is_proxy_error(r)) THEN TRUE
    ELSE IF is_timeout(r) THEN TRUE
    ELSE IF is_server_down(r) THEN TRUE
    ELSE FALSE

\* Request.should_abort: the record it hands to the logger, <<>> when none
should_abort_log(r, proxy_on) ==
    IF ~has_errors(r) THEN <<>>
    ELSE IF proxy_on /\ (is_blocked(r) \/ is_proxy_error(r))
        THEN <<[level |-> "debug", message |-> "Aborting: proxy is blocked or not working"]>>
    ELSE IF is_timeout(r)
        THEN <<[level |-> "debug", message |-> "Aborting: page or proxy timeout"]>>
    ELSE IF is_server_down(r)
        THEN <<[level |-> "debug", message |-> "Aborting: server page is down"]>>
    ELSE <<[level |-> "error", message |-> get_last_error(r.errors)]>>

\* Request.should_abort: the value returned
should_abort(r, proxy_on) ==
    IF ~has_errors(r) THEN FALSE
    ELSE IF proxy_on /\ (is_blocked(r) \/ is_proxy_error(r)) THEN TRUE
    ELSE IF is_timeout(r) THEN TRUE
    ELSE IF is_server_down(r) THEN TRUE
    ELSE TRUE

RECURSIVE Pow(_, _)
\* base ** exp
Pow(base, exp) == IF exp = 0 THEN 1 ELSE base * Pow(base, exp - 1)

\* attempt < self._retries with the budget cut by one
HasAttemptsLeft_OneFewer(r, attempt) == attempt + 1 < r.retries

\* a retry test that never gives up
HasAttemptsLeft_Always(r, attempt) == TRUE

\* attempt < self._retries
HasAttemptsLeft(r, attempt) == attempt < r.retries

\* backoff that grows linearly instead of exponentially
BackoffDelay_Linear(r, attempt) == r.backoff_factor * attempt

\* self._backoff_factor ** attempt
BackoffDelay(r, attempt) == Pow(r.backoff_factor, attempt)

\* the no-retry test with 404 left out
IsNoRetryStatus_Without404(status) == status \in {401, 403}

\* status in _NO_RETRY_STATUSES
IsNoRetryStatus(status) == status \in NO_RETRY_STATUSES

\* elapsed_ms of an attempt
ElapsedMs == {10}

\* a call the Request makes on its collector
ReportRequest(c, status) ==
    [op |-> "record_request", domain |-> c.domain, proxy |-> c.proxy_key,
     status_code |-> status]
ReportError(c, error_type) ==
    [op |-> "record_error", domain |-> c.domain, proxy |-> c.proxy_key,
     error_type |-> error_type]

\* what one pass through the loop body leaves behind: the Request, whether
\* the loop goes on ("continue", after time.sleep(slept[1])) or the call
\* returns ("return", with ret: <<>> is None, <<s>> the response), and the
\* calls made on the collector, in order
LoopStep(r, next, ret, slept, reports) ==
    [req |-> r, next |-> next, ret |-> ret, slept |-> slept, reports |-> reports]

\* the except branch without the report to the collector
ExceptBranch_NoReport(r, c, exc, t, reported) ==
    LET ct == classify_exception(exc)
        r1 == Request_record_error(r, t, ct.type, exc.msg, c.url)
    IN IF ct.retryable /\ HasAttemptsLeft(r, c.attempt)
       THEN LoopStep(r1, "continue", <<>>, <<BackoffDelay(r, c.attempt)>>, reported)
       ELSE LoopStep(r1, "return", <<>>, <<>>, reported)

\* _make_request: the except branch; t is the clock value add_error reads,
\* reported the collector calls the try block made before it raised
ExceptBranch(r, c, exc, t, reported) ==
    LET ct == classify_exception(exc)
        r1 == Request_record_error(r, t, ct.type, exc.msg, c.url)
    IN IF ct.retryable /\ HasAttemptsLeft(r, c.attempt)
       THEN LoopStep(r1, "continue", <<>>, <<BackoffDelay(r, c.attempt)>>, reported)
       ELSE LoopStep(r1, "return", <<>>, <<>>,
                     IF r.has_metrics
                        THEN Append(reported, ReportError(c, ct.type)) ELSE reported)

\* "except Exception" with the handler narrowed to httpx errors
Catches_HttpErrorsOnly(exc) == "HTTPError" \in ExcBases(exc.cls)

\* except Exception as exc: whether the handler takes the exception
Catches(exc) == "Exception" \in ExcBases(exc.cls)

\* an exception raised inside the try block: the except branch handles it,
\* or it leaves _make_request ("raise")
Raised(r, c, exc, t, reported) ==
    IF Catches(exc) THEN ExceptBranch(r, c, exc, t, reported)
    ELSE LoopStep(r, "raise", <<>>, <<>>, reported)

\* the exception _auto_save_response raises when the write fails
SaveError == [cls |-> "OSError", msg |-> [text |-> "cannot write", num |-> 0]]

\* _auto_save_response can raise only when it gets to the file system
SaveCanRaise(r) == r.save_responses /\ r.save_dir # None

\* the retried-status branch with the report to the collector left out
RetryStatus_Unreported(r, c, status, t, reported) ==
    LoopStep(r, "continue", <<>>, <<BackoffDelay(r, c.attempt)>>, <<>>)

\* the retried-status branch with a local error recorded before the sleep
RetryStatus_Recording(r, c, status, t, reported) ==
    LoopStep(Request_record_error(r, t, BAD_STATUS, HttpMessage(status), c.url),
             "continue", <<>>, <<BackoffDelay(r, c.attempt)>>, reported)

\* _make_request: a retryable status with attempts left - sleep and continue
RetryStatus(r, c, status, t, reported) ==
    LoopStep(r, "continue", <<>>, <<BackoffDelay(r, c.attempt)>>, reported)

\* _make_request: the try branch for an attempt that received a response
TryBranch(r, c, status, save_raises, t) ==
    LET r1 == [r EXCEPT !.response = <<status>>, !.request_count = @ + 1]
        reported == IF r.has_metrics THEN <<ReportRequest(c, status)>> ELSE <<>>
    IN IF Is2xx(status)
       THEN IF SaveCanRaise(r) /\ save_raises
            THEN Raised(r1, c, SaveError, t, reported)
            ELSE LoopStep(r1, "return", <<status>>, <<>>, reported)
       ELSE IF IsNoRetryStatus(status)
       THEN LoopStep(Request_record_error(r1, t, BAD_STATUS, HttpMessage(status), c.url),
                     "return", <<status>>, <<>>, reported)
       ELSE IF status \in r.retry_on_status /\ HasAttemptsLeft(r, c.attempt)
       THEN RetryStatus(r1, c, status, t, reported)
       ELSE LoopStep(Request_record_error(r1, t, BAD_STATUS, HttpMessage(status), c.url),
                     "return", <<status>>, <<>>, reported)

\* one pass through the loop body of _make_request for a transport outcome
\* o: [kind |-> "response", status |-> s] or [kind |-> "exception", exc |-> e]
LoopBody(r, c, o, save_raises, t) ==
    IF o.kind = "response"
    THEN TryBranch(r, c, o.status, save_raises, t)
    ELSE Raised(r, c, o.exc, t, <<>>)

\* the collector after one reported call
ApplyReport(m, rep, jd, jp) ==
    IF rep.op = "record_request"
    THEN record_request(m, rep.domain, rep.proxy, rep.status_code,
                        CHOOSE e \in ElapsedMs : TRUE, jd, jp)
    ELSE record_error(m, rep.domain, rep.proxy, rep.error_type)

RECURSIVE ApplyReports(_, _, _, _)
\* the collector after the reported calls, in order (only the first of them
\* can be a record_request, which takes the two draws)
ApplyReports(m, reports, jd, jp) ==
    IF reports = <<>> THEN m
    ELSE ApplyReports(ApplyReport(m, Head(reports), jd, jp), Tail(reports), jd, jp)

\* the draws a report sequence can take
ReportDraws(m, reports) ==
    IF reports # <<>> /\ Head(reports).op = "record_request"
    THEN DomainDraws(m, Head(reports).domain) \X ProxyDraws(m, Head(reports).proxy)
    ELSE {<<0, 0>>}

Idle == [pc |-> "idle", url |-> None, domain |-> None, proxy_key |-> None, attempt |-> 0]

Pending == [kind |-> "pending", value |-> <<>>]
\* the value a get/post call returns: a response or None
Returned(ret) ==
    IF ret = <<>> THEN [kind |-> "none", value |-> <<>>]
    ELSE [kind |-> "response", value |-> ret]
\* how a pass through the loop body ends the call
Outcome(step) ==
    IF step.next = "raise" THEN [kind |-> "raise", value |-> <<>>]
    ELSE Returned(step.ret)

\* get / post: _make_request up to the loop
StartCall(url) ==
    /\ call.pc = "idle"
    /\ \E t \in ClockReads(now) :
          /\ now' = t
          /\ req' = [req EXCEPT !.last_request_time = <<t>>,
                                !.last_request_url = url,
                                !.response = <<>>]
    /\ req0' = req'
    /\ call' = [pc |-> "request", url |-> url, domain |-> Netloc(url),
                proxy_key |-> get_proxy_key(req), attempt |-> 0]
    /\ trace' = <<>>
    /\ result' = Pending
    /\ calls' = calls + 1
    /\ UNCHANGED <<metricsVars, invocations, threadVars>>

\* _make_request: one attempt - the transport is invoked, its outcome o is
\* handled, and the loop either sleeps and goes on or the call returns.
\* (The clock is read by add_error only; a pass that records no error leaves
\* the last value read unchanged.)
Attempt(o, save_raises) ==
    /\ call.pc = "request"
    /\ \E t \in ClockReads(now) :
          LET step == LoopBody(req, call, o, save_raises, t)
              tr == Append(trace, [ev |-> "transport", outcome |-> o])
          IN /\ (t = now \/ step.req.errors # req.errors)
             /\ req' = step.req
             /\ now' = t
             /\ invocations' = invocations + 1
             /\ IF step.next = "continue"
                THEN /\ trace' = Append(tr, [ev |-> "sleep", secs |-> step.slept[1]])
                     /\ IF call.attempt + 1 < req.retries + 1
                        THEN /\ call' = [call EXCEPT !.attempt = @ + 1]
                             /\ result' = result
                        ELSE \* range(retries + 1) is exhausted: return self.response
                             /\ call' = Idle
                             /\ result' = Returned(step.req.response)
                ELSE /\ trace' = tr
                     /\ call' = Idle
                     /\ result' = Outcome(step)
             /\ \E draw \in ReportDraws(metrics, step.reports) :
                   metrics' = ApplyReports(metrics, step.reports, draw[1], draw[2])
    /\ UNCHANGED <<hist, req0, calls, threadVars>>

----------------------------------------------------------------------------
(* _async_make_request: the suspendable loop, translated on its own *)

\* the async except branch reporting every raising attempt to the collector
AsyncExceptBranch_AlwaysReports(r, c, exc, t, reported) ==
    LET ct == classify_exception(exc)
        r1 == Request_record_error(r, t, ct.type, exc.msg, c.url)
        reports == IF r.has_metrics THEN Append(reported, ReportError(c, ct.type))
                   ELSE reported
    IN IF ct.retryable /\ c.attempt < r.retries
       THEN LoopStep(r1, "continue", <<>>, <<Pow(r.backoff_factor, c.attempt)>>, reports)
       ELSE LoopStep(r1, "return", <<>>, <<>>, reports)

\* _async_make_request: the except branch
AsyncExceptBranch(r, c, exc, t, reported) ==
    LET ct == classify_exception(exc)
        r1 == Request_record_error(r, t, ct.type, exc.msg, c.url)
    IN IF ct.retryable /\ c.attempt < r.retries
       THEN \* await asyncio.sleep(self._backoff_factor ** attempt); continue
            LoopStep(r1, "continue", <<>>, <<Pow(r.backoff_factor, c.attempt)>>, reported)
       ELSE LoopStep(r1, "return", <<>>, <<>>,
                     IF r.has_metrics
                        THEN Append(reported, ReportError(c, ct.type)) ELSE reported)

\* an exception raised inside the async try block
AsyncRaised(r, c, exc, t, reported) ==
    IF "Exception" \in ExcBases(exc.cls) THEN AsyncExceptBranch(r, c, exc, t, reported)
    ELSE LoopStep(r, "raise", <<>>, <<>>, reported)

\* _async_make_request: the try branch for an attempt that received a response
AsyncTryBranch(r, c, status, save_raises, t) ==
    LET r1 == [r EXCEPT !.response = <<status>>, !.request_count = @ + 1]
        reported == IF r.has_metrics THEN <<ReportRequest(c, status)>> ELSE <<>>
    IN IF 200 <= status /\ status < 300
       THEN IF r.save_responses /\ r.save_dir # None /\ save_raises
            THEN AsyncRaised(r1, c, SaveError, t, reported)
            ELSE LoopStep(r1, "return", <<status>>, <<>>, reported)
       ELSE IF status \in NO_RETRY_STATUSES
       THEN LoopStep(Request_record_error(r1, t, BAD_STATUS, HttpMessage(status), c.url),
                     "return", <<status>>, <<>>, reported)
       ELSE IF status \in r.retry_on_status /\ c.attempt < r.retries
       THEN LoopStep(r1, "continue", <<>>, <<Pow(r.backoff_factor, c.attempt)>>, reported)
       ELSE LoopStep(Request_record_error(r1, t, BAD_STATUS, HttpMessage(status), c.url),
                     "return", <<status>>, <<>>, reported)

\* one pass through the loop body of _async_make_request
AsyncLoopBody(r, c, o, save_raises, t) ==
    IF o.kind = "response"
    THEN AsyncTryBranch(r, c, o.status, save_raises, t)
    ELSE AsyncRaised(r, c, o.exc, t, <<>>)

\* async_get / async_post: _async_make_request up to the loop
AsyncStartCall(url) ==
    /\ call.pc = "idle"
    /\ \E t \in ClockReads(now) :
          /\ now' = t
          /\ req' = [req EXCEPT !.last_request_time = <<t>>,
                                !.last_request_url = url,
                                !.response = <<>>]
    /\ req0' = req'
    /\ call' = [pc |-> "request", url |-> url, domain |-> Netloc(url),
                proxy_key |-> get_proxy_key(req), attempt |-> 0]
    /\ trace' = <<>>
    /\ result' = Pending
    /\ calls' = calls + 1
    /\ UNCHANGED <<metricsVars, invocations, threadVars>>

\* _async_make_request: one attempt
AsyncAttempt(o, save_raises) ==
    /\ call.pc = "request"
    /\ \E t \in ClockReads(now) :
          LET step == AsyncLoopBody(req, call, o, save_raises, t)
              tr == Append(trace, [ev |-> "transport", outcome |-> o])
          IN /\ (t = now \/ step.req.errors # req.errors)
             /\ req' = step.req
             /\ now' = t
             /\ invocations' = invocations + 1
             /\ IF step.next = "continue"
                THEN /\ trace' = Append(tr, [ev |-> "sleep", secs |-> step.slept[1]])
                     /\ IF call.attempt + 1 < req.retries + 1
                        THEN /\ call' = [call EXCEPT !.attempt = @ + 1]
                             /\ result' = result
                        ELSE \* range(retries + 1) is exhausted: return self.response
                             /\ call' = Idle
                             /\ result' = Returned(step.req.response)
                ELSE /\ trace' = tr
                     /\ call' = Idle
                     /\ result' = Outcome(step)
             /\ \E draw \in ReportDraws(metrics, step.reports) :
                   metrics' = ApplyReports(metrics, step.reports, draw[1], draw[2])
    /\ UNCHANGED <<hist, req0, calls, threadVars>>

\* "timeout" in str(exc).lower()
HasTimeoutWord(message) == message.text \in {"Connection timeout"}

\* SoapError with a fault recorded like any other exception
SoapError_FaultAsOther(exc) ==
    [type |-> IF HasTimeoutWord(exc.msg) THEN TIMEOUT ELSE OTHER_TYPE, message |-> exc.msg]

\* soap_call: the error type and the journal message of a raised exception
SoapError(exc) ==
    IF exc.cls = "Fault"
        THEN [type |-> REQUEST,
              message |-> [text |-> "SOAP Fault: " \o exc.msg.text, num |-> exc.msg.num]]
    ELSE IF exc.cls = "TransportError"
        THEN [type |-> PROXY,
              message |-> [text |-> "SOAP TransportError: " \o exc.msg.text,
                           num |-> exc.msg.num]]
    ELSE [type |-> IF HasTimeoutWord(exc.msg) THEN TIMEOUT ELSE OTHER_TYPE,
          message |-> exc.msg]

\* soap_call after self._last_request_time was set: the Request, the result
\* and the collector calls; o is what service_method(**params) did
\* ("value": it returned; "exception": it raised o.exc)
soap_call(r, o, raise_faults, t) ==
    LET c == [domain |-> "soap", proxy_key |-> get_proxy_key(r)]
    IN IF o.kind = "value"
       THEN [req |-> [r EXCEPT !.request_count = @ + 1],
             result |-> [kind |-> "value", value |-> <<>>],
             reports |-> IF r.has_metrics THEN <<ReportRequest(c, 200)>> ELSE <<>>]
       ELSE LET e == SoapError(o.exc)
            IN [req |-> Request_record_error(r, t, e.type, e.message, "soap"),
                result |-> IF o.exc.cls = "Fault" /\ raise_faults
                           THEN [kind |-> "raise", value |-> <<>>]
                           ELSE [kind |-> "none", value |-> <<>>],
                reports |-> IF r.has_metrics THEN <<ReportError(c, e.type)>> ELSE <<>>]

\* Request.log_stats: the collector's snapshot when one is attached,
\* otherwise the counters of this instance
Request_log_stats(r, m) ==
    IF r.has_metrics THEN log_stats(m)
    ELSE [ total_requests     |-> r.request_count,
           total_errors       |-> TotalErrors(r),
           error_rate_percent |-> ErrorRateHundredths(TotalErrors(r), r.request_count),
           error_breakdown    |-> [k \in {a \in RequestErrorType : r.err[a] > 0} |-> r.err[k]] ]

\* Request.soap_call, the whole call
SoapCall(o, raise_faults) ==
    /\ call.pc = "idle"
    /\ \E t0 \in ClockReads(now) : \E t \in ClockReads(t0) :
          LET r0 == [req EXCEPT !.last_request_time = <<t0>>]
              step == soap_call(r0, o, raise_faults, t)
          IN /\ (t = t0 \/ o.kind = "exception")
             /\ req0' = r0
             /\ req' = step.req
             /\ now' = t
             /\ result' = step.result
             /\ trace' = <<[ev |-> "soap", outcome |-> o, raise_faults |-> raise_faults]>>
             /\ \E draw \in ReportDraws(metrics, step.reports) :
                   metrics' = ApplyReports(metrics, step.reports, draw[1], draw[2])
    /\ calls' = calls + 1
    /\ UNCHANGED <<hist, call, invocations, threadVars>>

----------------------------------------------------------------------------
(* Spec: one Request, with or without a collector, making get/post calls  *)
(* one after the other                                                     *)

\* status codes the endpoint answers with
HttpStatuses == {200, 401, 403, 404, 418, 500}

\* exceptions the transport raises
Exceptions ==
    { [cls |-> "ReadTimeout", msg |-> [text |-> "timed out", num |-> 0]],
      [cls |-> "OSError", msg |-> [text |-> "broken", num |-> 0]] }

Outcomes ==
    {[kind |-> "response", status |-> s] : s \in HttpStatuses}
    \cup {[kind |-> "exception", exc |-> e] : e \in Exceptions}

\* what the callable given to soap_call does
SoapOutcomes ==
    { [kind |-> "value"],
      [kind |-> "exception",
       exc |-> [cls |-> "Fault", msg |-> [text |-> "Invalid OIB", num |-> 0]]],
      [kind |-> "exception",
       exc |-> [cls |-> "TransportError", msg |-> [text |-> "Server error", num |-> 503]]],
      [kind |-> "exception",
       exc |-> [cls |-> "Exception", msg |-> [text |-> "Connection timeout", num |-> 0]]] }

\* retry_on_status arguments: not given, and a list that also holds a 2xx code
\* and the no-retry codes
RetryOnStatusArgs == {<<>>, <<{200, 401, 403, 404, 418}>>}

BackoffFactors == {1, 2}

InitCollector == metrics = NewRequestMetrics(3, 2) /\ hist = <<>>

Threads == 1 .. NumThreads

ThreadIdle == [pc |-> "idle", op |-> [name |-> "none"], tmp |-> 0,
               ret |-> <<>>, expect |-> <<>>, rr_done |-> 0]

\* no thread is inside the collector
InitThreads ==
    /\ lock = 0
    /\ th = [t \in Threads |-> ThreadIdle]
    /\ lin = metrics
    /\ started = 0

InitClient(r) ==
    /\ req = r
    /\ call = Idle
    /\ now = 0
    /\ trace = <<>>
    /\ result = Pending
    /\ req0 = r
    /\ calls = 0
    /\ invocations = 0

Init ==
    /\ InitCollector
    /\ InitThreads
    /\ \E retries \in 0 .. MaxRetries, backoff_factor \in BackoffFactors,
          retry_on_status \in RetryOnStatusArgs,
          save \in BOOLEAN, has_metrics \in BOOLEAN :
          InitClient(NewRequest(retries, backoff_factor, retry_on_status,
                                save, IF save THEN "dir" ELSE None, has_metrics))

\* a caller makes a get/post call (one that the model can follow to its end)
Get ==
    /\ calls < MaxCalls
    /\ invocations + req.retries + 1 <= MaxInvocations
    /\ \E url \in {"https://a.com/page"} : StartCall(url)

\* the transport answers the attempt in progress
Transport ==
    \E o \in Outcomes :
        \E save_raises \in (IF o.kind = "response" /\ Is2xx(o.status) /\ SaveCanRaise(req)
                             THEN BOOLEAN ELSE {FALSE}) :
            Attempt(o, save_raises)

\* a caller makes a soap_call
Soap ==
    /\ calls < MaxOps
    /\ \E o \in SoapOutcomes :
        \E raise_faults \in (IF o.kind = "exception" THEN BOOLEAN ELSE {FALSE}) :
            SoapCall(o, raise_faults)

Next == Get \/ Transport

Spec == Init /\ [][Next]_vars

\* the first call of a Request whose transport invocations and sleeps
\* return: an attempt in progress is eventually answered
\* a caller makes the first get/post call on the Request
GetFirst ==
    /\ calls = 0
    /\ \E url \in {"https://a.com/page"} : StartCall(url)

NextTermination == GetFirst \/ Transport

SpecTermination == Init /\ [][NextTermination]_vars /\ WF_vars(Transport)

----------------------------------------------------------------------------
(* SpecSoap: one Request, with or without a collector, making soap_call     *)
(* calls one after the other                                                *)

InitSoap ==
    /\ InitCollector
    /\ InitThreads
    /\ \E has_metrics \in BOOLEAN :
          InitClient(NewRequest(0, 2, <<>>, FALSE, None, has_metrics))

NextSoap == Soap

SpecSoap == InitSoap /\ [][NextSoap]_vars

----------------------------------------------------------------------------
(* SpecCalls: one Request making several get/post and soap_call calls, so   *)
(* that a call finds the journal and the counters earlier calls left        *)

InitCalls ==
    /\ InitCollector
    /\ InitThreads
    /\ \E retries \in {0, 1} :
          InitClient(NewRequest(retries, 1, <<>>, FALSE, None, FALSE))

\* a caller makes another get/post call
GetAgain ==
    /\ calls < MaxOps
    /\ invocations + req.retries + 1 <= MaxInvocations
    /\ \E url \in {"https://a.com/page"} : StartCall(url)

\* the transport answers, or times out on, the attempt in progress
TransportBrief ==
    \E o \in {[kind |-> "response", status |-> 200],
               [kind |-> "response", status |-> 500],
               [kind |-> "exception",
                exc |-> [cls |-> "ReadTimeout", msg |-> [text |-> "timed out", num |-> 0]]]} :
        Attempt(o, FALSE)

NextCalls == GetAgain \/ TransportBrief \/ Soap

SpecCalls == InitCalls /\ [][NextCalls]_vars

----------------------------------------------------------------------------
(* SpecSession: one Request with a collector whose caller sets and resets   *)
(* the session state between get/post, soap_call and should_abort calls     *)

HeaderArgs == {DictPut(EmptyDict, "User-Agent", "bot")}
CookieArgs == {DictPut(EmptyDict, "sid", "1")}
ProxyArgs == {None, "p1"}

InitSession ==
    /\ InitCollector
    /\ InitThreads
    /\ InitClient(NewRequest(0, 1, <<>>, FALSE, None, TRUE))

SetHeaders ==
    /\ call.pc = "idle"
    /\ \E headers \in HeaderArgs : req' = set_headers(req, headers)
    /\ UNCHANGED <<metricsVars, call, now, trace, result, req0, calls, invocations, threadVars>>

ResetHeaders ==
    /\ call.pc = "idle"
    /\ req' = reset_headers(req)
    /\ UNCHANGED <<metricsVars, call, now, trace, result, req0, calls, invocations, threadVars>>

SetCookies ==
    /\ call.pc = "idle"
    /\ \E cookies \in CookieArgs : req' = set_cookies(req, cookies)
    /\ UNCHANGED <<metricsVars, call, now, trace, result, req0, calls, invocations, threadVars>>

ResetCookies ==
    /\ call.pc = "idle"
    /\ req' = reset_cookies(req)
    /\ UNCHANGED <<metricsVars, call, now, trace, result, req0, calls, invocations, threadVars>>

SetAuth ==
    /\ call.pc = "idle"
    /\ req' = set_auth(req, "user", "secret")
    /\ UNCHANGED <<metricsVars, call, now, trace, result, req0, calls, invocations, threadVars>>

SetProxy ==
    /\ call.pc = "idle"
    /\ \E proxy_config \in ProxyArgs : req' = set_proxy(req, proxy_config)
    /\ UNCHANGED <<metricsVars, call, now, trace, result, req0, calls, invocations, threadVars>>

\* the caller asks should_abort(logger, proxy_on) after a call
ShouldAbort ==
    /\ call.pc = "idle"
    /\ calls > 0
    /\ \E proxy_on \in BOOLEAN :
          result' = [kind |-> "abort", value |-> should_abort(req, proxy_on)]
    /\ UNCHANGED <<metricsVars, req, call, now, trace, req0, calls, invocations, threadVars>>

\* the caller makes a get/post call
SessionGet ==
    /\ calls < MaxCalls
    /\ \E url \in {"https://a.com/page"} : StartCall(url)

\* the caller makes a soap_call
SessionSoap ==
    /\ calls < MaxCalls
    /\ \E o \in {[kind |-> "value"],
                   [kind |-> "exception",
                    exc |-> [cls |-> "Fault", msg |-> [text |-> "Server", num |-> 0]]]} :
          SoapCall(o, FALSE)

NextSession ==
    \/ SetHeaders \/ ResetHeaders \/ SetCookies \/ ResetCookies \/ SetAuth \/ SetProxy
    \/ SessionGet \/ TransportBrief \/ SessionSoap \/ ShouldAbort

SpecSession == InitSession /\ [][NextSession]_vars

\* a get/post or soap_call call was made and has returned
AnyCallDoneSession == calls > 0 /\ call.pc = "idle"

\* the session state of a Request
Session(r) == <<r.headers, r.cookies, r.auth, r.proxy>>

\* this step changed nothing but the named session field of the Request
OnlySessionField(field) ==
    /\ \A f \in (DOMAIN req) \ {field} : req'[f] = req[f]
    /\ metrics' = metrics

\* C24: each of set_headers, reset_headers, set_cookies, reset_cookies,
\* set_auth, set_proxy changes its own session field and leaves the other
\* session fields, the journal, the counters, the stored response, the
\* last-call timestamp and the collector unchanged; get/post, soap_call and
\* should_abort never change session state; so session state changes only
\* in a setter or reset call.
C24_SessionChangesOnlyBySetters ==
    [][ /\ SetHeaders => (OnlySessionField("headers") /\ req'.headers \in HeaderArgs)
        /\ ResetHeaders => (OnlySessionField("headers") /\ req'.headers = EmptyDict)
        /\ SetCookies => (OnlySessionField("cookies") /\ req'.cookies \in CookieArgs)
        /\ ResetCookies => (OnlySessionField("cookies") /\ req'.cookies = EmptyDict)
        /\ SetAuth => (OnlySessionField("auth") /\ req'.auth = <<<<"user", "secret">>>>)
        /\ SetProxy => (OnlySessionField("proxy") /\ req'.proxy \in ProxyArgs)
        /\ (SessionGet \/ TransportBrief \/ SessionSoap \/ ShouldAbort) => Session(req') = Session(req)
        /\ Session(req') # Session(req) =>
              (SetHeaders \/ ResetHeaders \/ SetCookies \/ ResetCookies \/ SetAuth \/ SetProxy)
      ]_vars

\* every session field was set, and a call that recorded an error and
\* reached the collector was made with should_abort asked after it
C24_Witness ==
    /\ req.headers # EmptyDict /\ req.cookies # EmptyDict
    /\ req.auth # <<>> /\ req.proxy = "p1"
    /\ AnyCallDoneSession /\ req.errors # <<>>
    /\ metrics.request_count > 0
    /\ result.kind = "abort" /\ result.value

----------------------------------------------------------------------------
(* SpecStatuses: get/post calls, one after the other, against an endpoint   *)
(* that answers with statuses of every class                                *)

StatusAnswers == {200, 302, 400, 401, 403, 429, 499, 500, 503, 599}

InitStatuses ==
    /\ InitCollector
    /\ InitThreads
    /\ \E retries \in {0, 1} :
          InitClient(NewRequest(retries, 1, <<>>, FALSE, None, FALSE))

\* the transport answers the attempt in progress
TransportStatus ==
    \E status \in StatusAnswers : Attempt([kind |-> "response", status |-> status], FALSE)

NextStatuses == GetAgain \/ TransportStatus

SpecStatuses == InitStatuses /\ [][NextStatuses]_vars

----------------------------------------------------------------------------
(* SpecRetryList: get/post calls of a Request built with each kind of       *)
(* retry_on_status argument, against an endpoint that answers with statuses *)

\* not given, the empty list, a list of the caller's
RetryListArgs == {<<>>, <<{}>>, <<{418}>>}

InitRetryList ==
    /\ InitCollector
    /\ InitThreads
    /\ \E retries \in 0 .. MaxRetries, retry_on_status \in RetryListArgs :
          InitClient(NewRequest(retries, 1, retry_on_status, FALSE, None, FALSE))

\* the endpoint answers the attempt in progress
TransportAnswers ==
    \E s \in {200, 404, 418, 500} : Attempt([kind |-> "response", status |-> s], FALSE)

NextRetryList == Get \/ TransportAnswers

SpecRetryList == InitRetryList /\ [][NextRetryList]_vars

----------------------------------------------------------------------------
(* Properties of get/post calls, stated over the trace of the latest call *)

\* positions of the transport invocations in the trace
TransportIdx == {i \in 1 .. Len(trace) : trace[i].ev = "transport"}

\* the latest call was a get/post call and it has returned
HttpCallDone == call.pc = "idle" /\ TransportIdx # {}

\* the latest call (get/post or soap_call) has returned
AnyCallDone == call.pc = "idle" /\ calls > 0

\* the attempt at position i received a response with a status in S
ReceivedStatusIn(i, S) ==
    /\ trace[i].ev = "transport"
    /\ trace[i].outcome.kind = "response"
    /\ trace[i].outcome.status \in S

\* every attempt of the latest call received a retryable non-2xx status
AlwaysRetryableStatus ==
    \A i \in TransportIdx :
        ReceivedStatusIn(i, {s \in req.retry_on_status \ NO_RETRY_STATUSES : ~Is2xx(s)})

\* the sleep durations of the latest call, in order
RECURSIVE SleepsOf(_)
SleepsOf(tr) ==
    IF tr = <<>> THEN <<>>
    ELSE IF Head(tr).ev = "sleep" THEN <<Head(tr).secs>> \o SleepsOf(Tail(tr))
    ELSE SleepsOf(Tail(tr))

\* every attempt of the latest call received a status listed in
\* retry_on_status other than 401/403/404
AlwaysListedStatus ==
    \A i \in TransportIdx :
        ReceivedStatusIn(i, req.retry_on_status \ NO_RETRY_STATUSES)

\* C1 as stated: when every attempt of a get/post call receives a status that
\* is in retry_on_status (and not 401/403/404), the transport is invoked
\* exactly retries + 1 times and the call returns the last response.
C1_AnyListedStatus ==
    (HttpCallDone /\ AlwaysListedStatus) =>
        /\ Cardinality(TransportIdx) = req.retries + 1
        /\ result.kind = "response"
        /\ result.value = <<trace[Len(trace)].outcome.status>>

\* C1: when every attempt of a get/post call receives a non-2xx status that
\* is in retry_on_status (and not 401/403/404), the transport is invoked exactly
\* retries + 1 times and the call returns the last response with its status.
C1_RetriesPlusOneInvocations ==
    (HttpCallDone /\ AlwaysRetryableStatus) =>
        /\ Cardinality(TransportIdx) = req.retries + 1
        /\ result.kind = "response"
        /\ result.value = <<trace[Len(trace)].outcome.status>>

\* a call with retries >= 2 ended after only retryable statuses
C1_Witness ==
    /\ HttpCallDone /\ AlwaysRetryableStatus
    /\ req.retries >= 2
    /\ Cardinality(TransportIdx) = req.retries + 1

\* C2: a response with status 401, 403 or 404 ends the call on that attempt,
\* whatever retries and retry_on_status are: it is the last event of the
\* trace (no sleep, no further invocation), the call has returned that
\* response, and exactly one BAD_STATUS error was recorded by the call (the
\* counter grew by one, the last journal entry is "HTTP <status>").
C2_NoRetryStatusesEndTheCall ==
    \A i \in 1 .. Len(trace) :
        ReceivedStatusIn(i, {401, 403, 404}) =>
            /\ i = Len(trace)
            /\ call.pc = "idle"
            /\ result = [kind |-> "response", value |-> <<trace[i].outcome.status>>]
            /\ req.err[BAD_STATUS] = req0.err[BAD_STATUS] + 1
            /\ get_last_error(req.errors) # <<>>
            /\ get_last_error(req.errors)[1].type = BAD_STATUS
            /\ get_last_error(req.errors)[1].message = HttpMessage(trace[i].outcome.status)

\* a 401/403/404 that is in retry_on_status arrived on a retry, with budget left
C2_Witness ==
    /\ Len(trace) > 1
    /\ ReceivedStatusIn(Len(trace), {401, 403, 404} \cap req.retry_on_status)
    /\ Cardinality(TransportIdx) < req.retries + 1

\* C3: the sleep after the failed attempt with 0-based index k is
\* backoff_factor ** k; every sleep follows an attempt and is followed by the
\* next attempt (none after the attempt that ends the call); for
\* backoff_factor = 2 and retries = 3 against an always-retryable status the
\* sleeps are [1, 2, 4].
C3_BackoffSleeps ==
    /\ \A i \in 1 .. Len(trace) :
          trace[i].ev = "sleep" =>
             /\ i > 1 /\ trace[i - 1].ev = "transport"
             /\ trace[i].secs =
                   Pow(req.backoff_factor, Cardinality({k \in TransportIdx : k < i}) - 1)
             /\ IF i = Len(trace) THEN call.pc = "request"
                ELSE trace[i + 1].ev = "transport"
    /\ (HttpCallDone /\ AlwaysRetryableStatus /\ req.backoff_factor = 2 /\ req.retries = 3)
          => SleepsOf(trace) = <<1, 2, 4>>

\* backoff_factor = 2, retries = 3, every attempt got a retryable status
C3_Witness ==
    /\ HttpCallDone /\ AlwaysRetryableStatus
    /\ req.backoff_factor = 2 /\ req.retries = 3
    /\ SleepsOf(trace) = <<1, 2, 4>>

\* C9: right after a get/post call that returns a 2xx response, has_errors()
\* and should_abort(logger, proxy_on) are false for both values of proxy_on,
\* whatever attempts preceded the 2xx inside the call.
C9_NoAbortAfter2xx ==
    (HttpCallDone /\ result.kind = "response" /\ Is2xx(result.value[1])) =>
        /\ ~has_errors(req)
        /\ ~should_abort(req, TRUE)
        /\ ~should_abort(req, FALSE)

\* the latest call recorded a failure: it returned a non-2xx response or
\* None, or re-raised a fault
FailureRecorded ==
    /\ AnyCallDone
    /\ \/ result.kind \in {"none", "raise"}
       \/ result.kind = "response" /\ ~Is2xx(result.value[1])

\* C10: right after a get/post/soap_call call in which a failure was
\* recorded, has_errors() and should_abort(logger) are true, for every
\* non-decreasing clock.
C10_AbortAfterFailure ==
    FailureRecorded => (has_errors(req) /\ should_abort(req, FALSE))

----------------------------------------------------------------------------
(* SpecMetrics: sequential calls on one collector *)

Statuses == {200, 500}
Proxies == {None, "p1"}
ErrorTypes == {TIMEOUT, BAD_STATUS}
\* response_time_ms values
Times == {10, 20}

InitMetrics ==
    /\ \E maxf \in 1 .. MaxThreshold, minp \in 1 .. MaxThreshold :
          metrics = NewRequestMetrics(maxf, minp)
    /\ hist = <<>>
    /\ InitClient(NewRequest(0, 2, <<>>, FALSE, None, TRUE))
    /\ InitThreads

\* a caller invokes record_request(domain, proxy, status_code, response_time_ms)
RecordRequest ==
    /\ Len(hist) < MaxOps
    /\ \E domain \in Domains, proxy \in Proxies, status_code \in Statuses, t \in Times :
         \E jd \in DomainDraws(metrics, domain), jp \in ProxyDraws(metrics, proxy) :
            /\ metrics' = record_request(metrics, domain, proxy, status_code, t, jd, jp)
            /\ hist' = Append(hist, [op |-> "record_request", domain |-> domain,
                                     proxy_key |-> ProxyKey(proxy),
                                     failure |-> ~Is2xx(status_code)])
    /\ UNCHANGED <<clientVars, threadVars>>

\* a caller invokes record_error(domain, proxy, error_type)
RecordError ==
    /\ Len(hist) < MaxOps
    /\ \E domain \in Domains, proxy \in Proxies, error_type \in ErrorTypes :
            /\ metrics' = record_error(metrics, domain, proxy, error_type)
            /\ hist' = Append(hist, [op |-> "record_error", domain |-> domain,
                                     proxy_key |-> ProxyKey(proxy),
                                     failure |-> TRUE])
    /\ UNCHANGED <<clientVars, threadVars>>

NextMetrics == RecordRequest \/ RecordError

SpecMetrics == InitMetrics /\ [][NextMetrics]_vars

\* the statuses the attempts of the latest call received, in order
RECURSIVE StatusesOf(_)
StatusesOf(tr) ==
    IF tr = <<>> THEN <<>>
    ELSE IF Head(tr).ev = "transport" /\ Head(tr).outcome.kind = "response"
         THEN <<Head(tr).outcome.status>> \o StatusesOf(Tail(tr))
    ELSE StatusesOf(Tail(tr))

\* the local error counters, summed
LocalErrors(r) == SumOver(r.err, RequestErrorType)

\* C11: attempts that receive a retryable status and are retried record
\* nothing locally.  A finished call whose attempts all received a retryable
\* non-2xx status has recorded exactly one error, of kind BAD_STATUS, for the
\* last status: one counter step, one add_error call on the journal (one more
\* entry in a journal that was empty).  With retries = 2, backoff_factor = 1
\* and the default retry list against 500: three invocations, 500 returned.
C11_RetriedStatusRecordsNothing ==
    (HttpCallDone /\ AlwaysRetryableStatus) =>
        LET last == trace[Len(trace)].outcome.status
        IN /\ req.err[BAD_STATUS] = req0.err[BAD_STATUS] + 1
           /\ LocalErrors(req) = LocalErrors(req0) + 1
           /\ \E t \in 0 .. now :
                 req.errors = add_error(req0.errors, t, BAD_STATUS, HttpMessage(last),
                                        req.last_request_url)
           /\ req0.errors = <<>> => Len(req.errors) = 1
           /\ (req.retries = 2 /\ req.backoff_factor = 1 /\ last = 500
                  /\ req.retry_on_status = DEFAULT_RETRY_ON_STATUS) =>
                 /\ StatusesOf(trace) = <<500, 500, 500>>
                 /\ SleepsOf(trace) = <<1, 1>>
                 /\ result = [kind |-> "response", value |-> <<500>>]

\* retries = 2, backoff_factor = 1, default retry list, three answers of 500
C11_Witness ==
    /\ HttpCallDone
    /\ req.retries = 2 /\ req.backoff_factor = 1
    /\ req.retry_on_status = DEFAULT_RETRY_ON_STATUS
    /\ StatusesOf(trace) = <<500, 500, 500>>
    /\ req.err[BAD_STATUS] = 1 /\ Len(req.errors) = 1

\* the 0-based index of the attempt at position i of the trace
AttemptIndex(i) == Cardinality({k \in TransportIdx : k < i})

\* the attempt at position i of the trace raised an exception
RaisedAt(i) == trace[i].ev = "transport" /\ trace[i].outcome.kind = "exception"

\* C13: get/post never raise to the caller: whatever statuses and exceptions
\* the attempts produced, a call that has ended returned a response or None
\* (a response only if its last attempt received one).
C13_NeverRaises ==
    HttpCallDone =>
        /\ result.kind \in {"response", "none"}
        /\ result.kind = "response" =>
               /\ ~RaisedAt(Len(trace))
               /\ result.value = <<trace[Len(trace)].outcome.status>>
        /\ RaisedAt(Len(trace)) => result.kind = "none"

\* a call ended on an exception that is no httpx error, after a retry
C13_Witness ==
    /\ HttpCallDone
    /\ Len(trace) > 1
    /\ RaisedAt(Len(trace))
    /\ trace[Len(trace)].outcome.exc.cls = "OSError"
    /\ result.kind = "none"

\* C15: an attempt that receives a 2xx status ends the call successfully:
\* it is the last event of the call, the call has returned that response, and
\* a call answered 2xx on its first attempt has added no journal entry and no
\* error counter, locally or (on a collector that has seen nothing else) in
\* the collector - whether response saving is off, succeeds or fails.
C15_SuccessEndsCallCleanly ==
    \A i \in TransportIdx :
        ReceivedStatusIn(i, {s \in HttpStatuses : Is2xx(s)}) =>
            /\ i = Len(trace)
            /\ call.pc = "idle"
            /\ result = [kind |-> "response", value |-> <<trace[i].outcome.status>>]
            /\ i = 1 =>
                  /\ req.errors = req0.errors
                  /\ req.err = req0.err
                  /\ (req.has_metrics /\ calls = 1) =>
                        /\ TotalErrors(metrics) = 0
                        /\ metrics.target_failures = EmptyDict

\* the retry list the caller configured: the default when none was passed
ConfiguredList(r) ==
    IF r.configured = <<>> THEN DEFAULT_RETRY_ON_STATUS ELSE r.configured[1]

\* C16: for every retry_on_status the caller configures, the empty list
\* included, a response whose status is non-2xx and not in the configured
\* list ends the call on that attempt (no sleep, no further attempt, one
\* BAD_STATUS error recorded, the response returned); a status in the
\* configured list is followed by a sleep only while attempts remain.
C16_ConfiguredListDecides ==
    \A i \in TransportIdx :
        /\ ReceivedStatusIn(i, {s \in 100 .. 599 : ~Is2xx(s)} \ ConfiguredList(req)) =>
              /\ i = Len(trace)
              /\ call.pc = "idle"
              /\ result = [kind |-> "response", value |-> <<trace[i].outcome.status>>]
              /\ req.err[BAD_STATUS] = req0.err[BAD_STATUS] + 1
        /\ (ReceivedStatusIn(i, ConfiguredList(req)) /\ i < Len(trace)) =>
              /\ trace[i + 1].ev = "sleep"
              /\ AttemptIndex(i) < req.retries

\* the failures recorded for a domain in the collector's breaker entry
BreakerFailures(m, domain) ==
    DictGet(m.target_failures, domain, [failures |-> 0, proxies |-> {}]).failures

\* the kind and the journal message of the failure a call ended with; o is
\* the outcome of its last attempt (a 2xx outcome: saving the response failed)
FailureOf(o) ==
    IF o.kind = "exception"
    THEN [type |-> classify_exception(o.exc).type, message |-> o.exc.msg]
    ELSE IF Is2xx(o.status)
    THEN [type |-> classify_exception(SaveError).type, message |-> SaveError.msg]
    ELSE [type |-> BAD_STATUS, message |-> HttpMessage(o.status)]

\* the step that ends a get/post call in failure: it returns None or a
\* non-2xx response
EndsInFailure ==
    /\ call.pc = "request" /\ call'.pc = "idle"
    /\ \/ result'.kind = "none"
       \/ result'.kind = "response" /\ ~Is2xx(result'.value[1])

\* C17: a get/post call that ends in failure has, on the attempt that ends
\* it, made one add_error call on the journal (the entry is the last one, at
\* the clock value read), incremented the local counter of the failure's kind
\* and, with a collector attached, incremented the collector's counter of
\* that kind and the failure count of the domain's breaker entry (counted
\* from zero when that attempt had received a 2xx, which resets the entry).
C17_FailureIsRecordedEverywhere ==
    [][EndsInFailure =>
         LET o == trace'[Len(trace')].outcome
             f == FailureOf(o)
         IN /\ req'.errors = add_error(req.errors, now', f.type, f.message, call.url)
            /\ get_last_error(req'.errors) =
                  <<[time |-> now', type |-> f.type, message |-> f.message, url |-> call.url]>>
            /\ req'.err = [req.err EXCEPT ![f.type] = @ + 1]
            /\ req.has_metrics =>
                  /\ metrics'.err = [metrics.err EXCEPT ![f.type] = @ + 1]
                  /\ BreakerFailures(metrics', call.domain) =
                        IF o.kind = "response" /\ Is2xx(o.status) THEN 1
                        ELSE BreakerFailures(metrics, call.domain) + 1
            /\ ~req.has_metrics => metrics' = metrics
    ]_vars

\* a call with a collector attached ended with None after a retried timeout
C17_Witness ==
    /\ HttpCallDone
    /\ req.has_metrics
    /\ result.kind = "none"
    /\ Len(trace) > 1
    /\ RaisedAt(Len(trace))
    /\ metrics.err[TIMEOUT] = 1
    /\ BreakerFailures(metrics, "a.com") >= 1

\* the step that is a whole soap_call
SoapStep == calls' = calls + 1 /\ Len(trace') = 1 /\ trace'[1].ev = "soap"

\* C18: soap_call invokes the callable once; a fault is recorded as a
\* REQUEST error (journal entry, request_err + 1, collector counter and
\* breaker entry of "soap" when a collector is attached) in both modes, and
\* the call then returns None without raise_faults and re-raises with it; no
\* other exception of the callable propagates; a returned value records no
\* error.
C18_SoapCall ==
    [][SoapStep =>
         LET e == trace'[1]
             o == e.outcome
         IN /\ invocations' = invocations
            /\ req'.request_count = req.request_count + (IF o.kind = "value" THEN 1 ELSE 0)
            /\ o.kind = "value" =>
                  /\ result'.kind = "value"
                  /\ req'.errors = req.errors /\ req'.err = req.err
            /\ (o.kind = "exception" /\ o.exc.cls = "Fault") =>
                  /\ req'.err = [req.err EXCEPT ![REQUEST] = @ + 1]
                  /\ get_last_error(req'.errors) # <<>>
                  /\ get_last_error(req'.errors)[1].type = REQUEST
                  /\ get_last_error(req'.errors)[1].url = "soap"
                  /\ get_last_error(req'.errors)[1].time = now'
                  /\ req.has_metrics =>
                        /\ metrics'.err = [metrics.err EXCEPT ![REQUEST] = @ + 1]
                        /\ BreakerFailures(metrics', "soap") = BreakerFailures(metrics, "soap") + 1
                  /\ result'.kind = IF e.raise_faults THEN "raise" ELSE "none"
            /\ (o.kind = "exception" /\ o.exc.cls # "Fault") =>
                  /\ result'.kind = "none"
                  /\ Len(req'.errors) > 0
                  /\ LocalErrors(req') = LocalErrors(req) + 1
    ]_vars

\* a fault was re-raised to the caller after it was recorded
C18_Witness ==
    /\ Len(trace) = 1 /\ trace[1].ev = "soap"
    /\ trace[1].outcome.kind = "exception" /\ trace[1].outcome.exc.cls = "Fault"
    /\ trace[1].raise_faults
    /\ result.kind = "raise"
    /\ req.err[REQUEST] = 1
    /\ req.has_metrics /\ metrics.err[REQUEST] = 1

\* none of the reasons should_abort tests for holds
NoKnownReason(r, proxy_on) ==
    /\ ~(proxy_on /\ (is_blocked(r) \/ is_proxy_error(r)))
    /\ ~is_timeout(r)
    /\ ~is_server_down(r)

\* C20: should_abort(logger, proxy_on) equals has_errors() for both values
\* of proxy_on; the branches only choose the log record: the last error is
\* logged at error level exactly when has_errors() holds and none of
\* (proxy_on and (is_blocked or is_proxy_error)), is_timeout, is_server_down
\* holds, a debug reason is logged when has_errors() holds and one of them
\* does, and nothing is logged when has_errors() is false.
C20_ShouldAbortIsHasErrors ==
    \A proxy_on \in BOOLEAN :
        LET log == should_abort_log(req, proxy_on)
            fallback == has_errors(req) /\ NoKnownReason(req, proxy_on)
        IN /\ should_abort(req, proxy_on) = has_errors(req)
           /\ fallback <=> (log # <<>> /\ log[1].level = "error")
           /\ fallback => log[1].message = get_last_error(req.errors)
           /\ (has_errors(req) /\ ~fallback) <=> (log # <<>> /\ log[1].level = "debug")
           /\ ~has_errors(req) <=> log = <<>>

\* after a 401 the proxy branch logs a debug reason with proxy_on and the
\* fallback logs the error without it
C20_Witness ==
    /\ HttpCallDone
    /\ has_errors(req)
    /\ is_blocked(req)
    /\ should_abort(req, TRUE) /\ should_abort(req, FALSE)
    /\ should_abort_log(req, TRUE)[1].level = "debug"
    /\ should_abort_log(req, FALSE)[1].level = "error"

\* the latest call has returned and recorded no error
CallRecordedNoError == AnyCallDone /\ req.err = req0.err

\* C21: has_errors() is scoped to the most recent call: it is false before
\* any call, and after a call that recorded no error it is false, and
\* should_abort is false, whatever errors earlier calls left in the journal
\* and whatever values the non-decreasing clock returned.
C21_HasErrorsScopedToLastCall ==
    /\ calls = 0 => (~has_errors(req) /\ ~should_abort(req, FALSE) /\ ~should_abort(req, TRUE))
    /\ CallRecordedNoError =>
          /\ ~has_errors(req)
          /\ ~should_abort(req, FALSE)
          /\ ~should_abort(req, TRUE)

\* a call that recorded nothing followed calls that left errors, the last of
\* them at the clock value the call started at
C21_Witness ==
    /\ calls >= 2
    /\ CallRecordedNoError
    /\ req.errors # <<>>
    /\ req.errors[Len(req.errors)].time = req.last_request_time[1]
    /\ ~has_errors(req)

\* the latest get/post call has returned and its last attempt received the
\* non-2xx status s
EndedWithStatus(s) ==
    /\ call.pc = "idle" /\ trace # <<>>
    /\ ReceivedStatusIn(Len(trace), {s})
    /\ ~Is2xx(s)

\* C25: after a call that ends with a non-2xx status s the last journal
\* entry is 'HTTP s', is_blocked() is true iff s is 401, 403 or 429 and
\* is_server_down() is true iff 500 <= s <= 599; both are false when the
\* journal is empty.
C25_StatusPredicates ==
    /\ \A s \in StatusAnswers :
          EndedWithStatus(s) =>
             /\ req.errors # <<>>
             /\ req.errors[Len(req.errors)].message = HttpMessage(s)
             /\ req.errors[Len(req.errors)].type = BAD_STATUS
             /\ is_blocked(req) <=> s \in {401, 403, 429}
             /\ is_server_down(req) <=> (500 <= s /\ s <= 599)
    /\ req.errors = <<>> => (~is_blocked(req) /\ ~is_server_down(req))

\* a call that was answered 429 on every attempt, after an earlier call
\* that ended with a server error
C25_Witness ==
    /\ calls >= 2
    /\ EndedWithStatus(429)
    /\ Cardinality(TransportIdx) = 2
    /\ is_blocked(req) /\ ~is_server_down(req)
    /\ \E i \in 1 .. Len(req.errors) : req.errors[i].message = HttpMessage(599)

\* the attempt at position i of the trace had a terminal outcome: a 2xx, a
\* 401/403/404, a non-2xx outside the retry set, a non-retryable exception,
\* or any failure on the last allowed attempt
TerminalAt(i) ==
    LET o == trace[i].outcome
    IN \/ AttemptIndex(i) >= req.retries
       \/ /\ o.kind = "response"
          /\ \/ Is2xx(o.status)
             \/ o.status \in NO_RETRY_STATUSES
             \/ o.status \notin req.retry_on_status
       \/ /\ o.kind = "exception"
          /\ ~classify_exception(o.exc).retryable

\* the latest call received a retryable status and then a 2xx
RetryThenSuccess ==
    /\ Cardinality(TransportIdx) >= 2
    /\ LET i1 == CHOOSE i \in TransportIdx : AttemptIndex(i) = 0
           i2 == CHOOSE i \in TransportIdx : AttemptIndex(i) = 1
       IN /\ ~TerminalAt(i1)
          /\ trace[i1].outcome.kind = "response"
          /\ trace[i2].outcome.kind = "response"
          /\ Is2xx(trace[i2].outcome.status)

\* C26: a call stops at the first attempt whose outcome is terminal: no
\* transport invocation happens after it and the call has returned; a
\* retryable status followed by a 2xx within the budget yields the 2xx
\* response with exactly two invocations.
C26_StopsAtFirstTerminal ==
    /\ \A i \in TransportIdx :
          TerminalAt(i) => /\ \A j \in TransportIdx : j <= i
                           /\ call.pc = "idle"
    /\ RetryThenSuccess =>
          /\ Cardinality(TransportIdx) = 2
          /\ call.pc = "idle"
          /\ result = [kind |-> "response",
                       value |-> <<trace[Len(trace)].outcome.status>>]

\* the step in which an attempt of a call with a collector receives a response
ResponseStep ==
    /\ call.pc = "request"
    /\ req.has_metrics
    /\ Len(trace') > Len(trace)
    /\ trace'[Len(trace) + 1].outcome.kind = "response"

\* the attempts of the latest call that received a response
ResponseIdx == {i \in TransportIdx : trace[i].outcome.kind = "response"}

\* in every state of the first call on a fresh collector, the sleeps after a
\* retried status included, the collector has one request per response
\* received; after an endpoint answered a retryable non-2xx status on all
\* retries + 1 attempts the collector counts retries + 1 and the Request 1
ReportedBeforeSleep ==
    (req.has_metrics /\ calls = 1) =>
        /\ metrics.request_count = Cardinality(ResponseIdx)
        /\ (HttpCallDone /\ AlwaysRetryableStatus) =>
              /\ metrics.request_count = req.retries + 1
              /\ metrics.err[BAD_STATUS] = req.retries + 1
              /\ BreakerFailures(metrics, "a.com") = req.retries + 1
              /\ req.err[BAD_STATUS] = req0.err[BAD_STATUS] + 1

\* C28: with a collector attached, every attempt that receives a response is
\* reported to the collector by one record_request call made before any
\* backoff sleep and before the next attempt (request_count + 1, and for a
\* non-2xx status bad_status_code_err + 1 and the domain's breaker failures
\* + 1); so for an endpoint that answers a retryable non-2xx status on all
\* retries + 1 attempts the collector's request_count, bad_status_code_err
\* and the domain's breaker failure count each grow by retries + 1, while
\* the local bad_status_code_err grows by 1.
C28_EveryResponseReported ==
    /\ []ReportedBeforeSleep
    /\ [][ResponseStep =>
             LET status == trace'[Len(trace) + 1].outcome.status
             IN /\ metrics'.request_count = metrics.request_count + 1
                /\ metrics'.err[BAD_STATUS] =
                      metrics.err[BAD_STATUS] + (IF Is2xx(status) THEN 0 ELSE 1)
                /\ ~Is2xx(status) =>
                      BreakerFailures(metrics', call.domain) =
                         BreakerFailures(metrics, call.domain) + 1
         ]_vars

\* three answers of a retryable status to a Request with retries = 2 and a
\* collector
C28_Witness ==
    /\ HttpCallDone /\ AlwaysRetryableStatus
    /\ req.has_metrics /\ req.retries = 2
    /\ Len(SleepsOf(trace)) = 2
    /\ metrics.request_count = 3
    /\ metrics.err[BAD_STATUS] = 3
    /\ BreakerFailures(metrics, "a.com") = 3
    /\ req.err[BAD_STATUS] = 1

\* every attempt the latest call has made so far raised in the transport
AllRaised == TransportIdx # {} /\ \A i \in TransportIdx : RaisedAt(i)

\* the attempts of the latest call that raised an exception of the kind
RaisedOfType(kind) ==
    {i \in TransportIdx : RaisedAt(i) /\ classify_exception(trace[i].outcome.exc).type = kind}

\* on the exception path the local counters count every raising attempt and
\* the collector only the one that ended the call
RaisesCounted ==
    AllRaised =>
        /\ \A kind \in RequestErrorType :
              req.err[kind] = req0.err[kind] + Cardinality(RaisedOfType(kind))
        /\ (req.has_metrics /\ calls = 1) =>
              LET last == classify_exception(trace[Len(trace)].outcome.exc).type
              IN IF call.pc = "idle"
                 THEN /\ TotalErrors(metrics) = 1
                      /\ metrics.err[last] = 1
                      /\ BreakerFailures(metrics, "a.com") = 1
                 ELSE /\ TotalErrors(metrics) = 0
                      /\ BreakerFailures(metrics, "a.com") = 0
        /\ (call.pc = "idle" /\ \A i \in TransportIdx : i \in RaisedOfType(TIMEOUT)) =>
              /\ Cardinality(TransportIdx) = req.retries + 1
              /\ req.err[TIMEOUT] = req0.err[TIMEOUT] + req.retries + 1

\* C29: on the exception path every raising attempt, retried or not, appends
\* one journal entry and increments the local counter of its kind, whereas
\* the collector's record_error is called only for the attempt that ends the
\* call: a call whose retries + 1 attempts all time out adds retries + 1 to
\* the local timeout_err and exactly 1 to the collector's timeout_err and to
\* the domain's circuit-breaker failure count.
C29_EveryRaiseRecordedLocally ==
    /\ RaisesCounted
    /\ AllRaised => Len(req.errors) = Len(req0.errors) + Cardinality(TransportIdx)

\* C32: when a get/post call returns, the response stored on the client
\* (the one get_content, get_json, get_content_length and save_html read) is
\* the value the call returned; in particular the stored response is None
\* whenever the call returned None, for every sequence of attempt outcomes.
C32_StoredResponseIsReturned ==
    HttpCallDone =>
        /\ result.kind = "response" => req.response = result.value
        /\ result.kind = "none" => req.response = <<>>

\* the values of is_blocked, is_timeout, is_proxy_error and is_server_down
LastErrorPredicates(r) ==
    <<is_blocked(r), is_timeout(r), is_proxy_error(r), is_server_down(r)>>

\* the four predicates are the same for a Request that holds the last
\* journal entry alone and for any last-call timestamp; after a timed-out
\* call followed by a call that recorded nothing is_timeout() is true and
\* has_errors() false
LastEntryDecides ==
    /\ LastErrorPredicates(req) =
          LastErrorPredicates([req EXCEPT !.errors = get_last_error(req.errors)])
    /\ \A ts \in {<<>>} \cup {<<t>> : t \in 0 .. MaxClock} :
          LastErrorPredicates(req) =
             LastErrorPredicates([req EXCEPT !.last_request_time = ts])
    /\ (CallRecordedNoError /\ req.errors # <<>>
           /\ req.errors[Len(req.errors)].type = TIMEOUT) =>
          (is_timeout(req) /\ ~has_errors(req))

\* C33: is_blocked, is_timeout, is_proxy_error and is_server_down are
\* functions of the most recently appended journal entry only: they do not
\* depend on the last-call timestamp, and a step that records no error (a
\* later successful call included) leaves all four unchanged; after a
\* timed-out call followed by a successful call is_timeout() is still true
\* while has_errors() is false.
C33_LastEntryOnly ==
    /\ []LastEntryDecides
    /\ [][req'.errors = req.errors =>
             LastErrorPredicates(req') = LastErrorPredicates(req)]_vars

\* a call that timed out was followed by a call answered 200
C33_Witness ==
    /\ calls >= 2
    /\ HttpCallDone
    /\ result = [kind |-> "response", value |-> <<200>>]
    /\ req.errors # <<>>
    /\ req.errors[Len(req.errors)].type = TIMEOUT
    /\ req.errors[Len(req.errors)].time = req.last_request_time[1]
    /\ is_timeout(req)
    /\ ~has_errors(req)

----------------------------------------------------------------------------
(* SpecInstances: two Request instances sharing one collector, driven by    *)
(* coroutines of one event loop.  Coroutines 1 and 2 call async_get on      *)
(* instance 1, coroutine 3 on instance 2.  Here req maps an instance to its *)
(* Request, call a coroutine to its frame (with what it started at and last *)
(* received, for the properties) and result a coroutine to what its latest  *)
(* call returned.  A coroutine runs from one await to the next in one step  *)
(* and makes one call.                                                      *)

Instances == {1, 2}
Coroutines == {1, 2, 3}
\* every coroutine calling on instance 1
Owner_OneInstance(k) == 1
\* the instance coroutine k calls on
Owner(k) == IF k = 3 THEN 2 ELSE 1
UrlFor(k) == IF k = 3 THEN "https://b.com/data" ELSE "https://a.com/page"

CoIdle == [pc |-> "idle", url |-> None, domain |-> None, proxy_key |-> None,
           attempt |-> 0, started |-> 0, received |-> <<>>]

InitInstances ==
    /\ InitCollector
    /\ InitThreads
    /\ req = [i \in Instances |-> NewRequest(1, 1, <<>>, FALSE, None, TRUE)]
    /\ req0 = req
    /\ call = [k \in Coroutines |-> CoIdle]
    /\ result = [k \in Coroutines |-> Pending]
    /\ now = 0
    /\ trace = <<>>
    /\ calls = 0
    /\ invocations = 0

\* coroutine k makes its call of async_get: _async_make_request up to the
\* first "await client.request"
CoStart(k) ==
    /\ call[k].pc = "idle"
    /\ result[k] = Pending
    /\ \E t \in ClockReads(now) :
          /\ now' = t
          /\ req' = [req EXCEPT ![Owner(k)] =
                        [@ EXCEPT !.last_request_time = <<t>>,
                                  !.last_request_url = UrlFor(k),
                                  !.response = <<>>]]
          /\ call' = [call EXCEPT ![k] =
                        [pc |-> "awaiting", url |-> UrlFor(k), domain |-> Netloc(UrlFor(k)),
                         proxy_key |-> get_proxy_key(req[Owner(k)]), attempt |-> 0,
                         started |-> t, received |-> <<>>]]
    /\ result' = [result EXCEPT ![k] = Pending]
    /\ calls' = calls + 1
    /\ UNCHANGED <<metricsVars, trace, req0, invocations, threadVars>>

\* the network call of coroutine k completes with outcome o and the
\* coroutine runs on to "await asyncio.sleep" or to its return
CoNetwork(k, o) ==
    /\ call[k].pc = "awaiting"
    /\ invocations < MaxInvocations
    /\ \E t \in ClockReads(now) :
          LET step == AsyncLoopBody(req[Owner(k)], call[k], o, FALSE, t)
              got == IF o.kind = "response" THEN <<o.status>> ELSE call[k].received
          IN /\ (t = now \/ step.req.errors # req[Owner(k)].errors)
             /\ now' = t
             /\ req' = [req EXCEPT ![Owner(k)] = step.req]
             /\ IF step.next = "continue"
                THEN /\ call' = [call EXCEPT ![k].pc = "sleeping", ![k].received = got]
                     /\ result' = result
                ELSE /\ call' = [call EXCEPT ![k].pc = "idle", ![k].received = got]
                     /\ result' = [result EXCEPT ![k] = Outcome(step)]
             /\ \E draw \in ReportDraws(metrics, step.reports) :
                   metrics' = ApplyReports(metrics, step.reports, draw[1], draw[2])
    /\ invocations' = invocations + 1
    /\ UNCHANGED <<hist, trace, req0, calls, threadVars>>

\* the backoff sleep of coroutine k is over: the next pass of the loop, up
\* to its "await client.request"
CoWake(k) ==
    /\ call[k].pc = "sleeping"
    /\ call' = [call EXCEPT ![k].pc = "awaiting", ![k].attempt = @ + 1]
    /\ UNCHANGED <<metricsVars, req, now, trace, result, req0, calls, invocations, threadVars>>

CoOutcomes ==
    {[kind |-> "response", status |-> 200],
     [kind |-> "response", status |-> 500],
     [kind |-> "exception",
      exc |-> [cls |-> "ReadTimeout", msg |-> [text |-> "timed out", num |-> 0]]]}

CoStarts == \E k \in Coroutines : CoStart(k)
CoNetworks == \E k \in Coroutines : \E o \in CoOutcomes : CoNetwork(k, o)
CoWakes == \E k \in Coroutines : CoWake(k)

NextInstances == CoStarts \/ CoNetworks \/ CoWakes

SpecInstances == InitInstances /\ [][NextInstances]_vars

\* coroutine k is at a suspension point: the network call or the sleep
Suspended(k) == call[k].pc \in {"awaiting", "sleeping"}

\* the calls of coroutine k have their instance to themselves: what the
\* instance holds is what k's calls wrote
OwnInstanceUntouched(k) ==
    LET r == req[Owner(k)]
    IN /\ call[k].pc = "idle" /\ result[k] = Pending => r = req0[Owner(k)]
       /\ result[k] # Pending \/ call[k].pc # "idle" =>
             /\ r.last_request_time = <<call[k].started>>
             /\ r.last_request_url = UrlFor(k)
             /\ r.response = call[k].received
       /\ (call[k].pc = "idle" /\ result[k].kind = "response") => result[k].value = r.response
       /\ \A i \in 1 .. Len(r.errors) : r.errors[i].url = UrlFor(k)

\* a step of a coroutine leaves the other instance and the other
\* coroutines' frames and results alone
OtherInstanceUnchanged ==
    \A k \in Coroutines :
        (call'[k] # call[k] \/ result'[k] # result[k]) =>
            /\ \A i \in Instances \ {Owner(k)} : req'[i] = req[i]
            /\ \A j \in Coroutines \ {k} : call'[j] = call[j] /\ result'[j] = result[j]

\* inside one instance a call can start while another is suspended, and
\* its start overwrites the stored response and the start timestamp
StartOverwrites ==
    \A k \in {1, 2} :
        (call'[k].pc = "awaiting" /\ call[k].pc = "idle") =>
            /\ req'[1].response = <<>>
            /\ req'[1].last_request_time = <<now'>>

CanInterleave ==
    \A k \in {1, 2} :
        (Suspended(k) /\ call[3 - k].pc = "idle" /\ result[3 - k] = Pending)
            => ENABLED CoStart(3 - k)

\* C34: calls made on distinct Request instances never affect each other's
\* returned response, journal, local counters or last-call timestamp, even
\* when the instances share one collector and run interleaved; inside one
\* instance a second async call can run at a suspension point of the first
\* (the network call or the backoff sleep) and overwrite the stored response
\* and the start timestamp the first then reads.
C34_InstancesIsolated ==
    /\ [](OwnInstanceUntouched(3) /\ CanInterleave)
    /\ [][OtherInstanceUnchanged /\ StartOverwrites]_vars

\* on instance 1 the call of coroutine 1 has returned a 200 while the
\* stored response is the 500 coroutine 2 received before its sleep and the
\* timestamp is the start of coroutine 2; instance 2, used in between
\* through the same collector, holds what coroutine 3 wrote
C34_Witness ==
    /\ call[1].pc = "idle" /\ result[1] = [kind |-> "response", value |-> <<200>>]
    /\ call[2].pc = "sleeping"
    /\ req[1].response = <<500>>
    /\ call[1].started # call[2].started
    /\ req[1].last_request_time = <<call[2].started>>
    /\ call[3].pc = "idle" /\ result[3].kind = "none"
    /\ metrics.request_count = 2

----------------------------------------------------------------------------
(* SpecReservoir: record_request calls for one domain through two proxies,  *)
(* every call with a latency of its own, so that the buffers show which     *)
(* sample went where                                                        *)

InitReservoir ==
    /\ metrics = NewRequestMetrics(1, 1)
    /\ hist = <<>>
    /\ InitClient(NewRequest(0, 2, <<>>, FALSE, None, TRUE))
    /\ InitThreads

\* the latency of the next call
NextSample == 10 * (Len(hist) + 1)

\* a caller invokes record_request("a.com", proxy, 200, response_time_ms)
RecordSample ==
    /\ Len(hist) < MaxSamples
    /\ \E proxy \in Proxies :
         \E jd \in DomainDraws(metrics, "a.com"), jp \in ProxyDraws(metrics, proxy) :
            /\ metrics' = record_request(metrics, "a.com", proxy, 200, NextSample, jd, jp)
            /\ hist' = Append(hist, [op |-> "record_request", domain |-> "a.com",
                                     proxy_key |-> ProxyKey(proxy), failure |-> FALSE])
    /\ UNCHANGED <<clientVars, threadVars>>

NextReservoir == RecordSample

SpecReservoir == InitReservoir /\ [][NextReservoir]_vars

\* the buffers one Algorithm R step can leave: n is the key's total-seen
\* counter after its increment
AlgorithmR(buffer, n, sample) ==
    IF Len(buffer) < RESERVOIR_SIZE
    THEN {Append(buffer, sample)}
    ELSE {IF j < RESERVOIR_SIZE THEN [buffer EXCEPT ![j + 1] = sample] ELSE buffer :
             j \in 0 .. n - 1}

DomainBuffer(m) == DictGet(m.domain_timings, "a.com", <<>>)
DomainSeen(m) == DictGet(m.domain_request_counts, "a.com", 0)
ProxyBuffer(m, k) == DictGet(m.proxy_stats, k, [count |-> 0, success |-> 0, timings |-> <<>>]).timings
ProxySeen(m, k) == DictGet(m.proxy_stats, k, [count |-> 0, success |-> 0, timings |-> <<>>]).count

\* every buffer Algorithm R can leave is left by some recording
EveryDrawPossible ==
    Len(hist) < MaxSamples =>
        /\ \A b \in AlgorithmR(DomainBuffer(metrics), DomainSeen(metrics) + 1, NextSample) :
              ENABLED (RecordSample /\ DomainBuffer(metrics') = b)
        /\ \A p \in Proxies :
              \A b \in AlgorithmR(ProxyBuffer(metrics, ProxyKey(p)),
                                  ProxySeen(metrics, ProxyKey(p)) + 1, NextSample) :
                 ENABLED (RecordSample /\ ProxyBuffer(metrics', ProxyKey(p)) = b)

\* a recording leaves the buffers of its keys as Algorithm R does
RecordingIsAlgorithmR ==
    RecordSample =>
        LET k == hist'[Len(hist')].proxy_key
        IN /\ DomainSeen(metrics') = DomainSeen(metrics) + 1
           /\ DomainBuffer(metrics') \in
                 AlgorithmR(DomainBuffer(metrics), DomainSeen(metrics'), NextSample)
           /\ ProxySeen(metrics', k) = ProxySeen(metrics, k) + 1
           /\ ProxyBuffer(metrics', k) \in
                 AlgorithmR(ProxyBuffer(metrics, k), ProxySeen(metrics', k), NextSample)
           /\ \A x \in {ProxyKey(p) : p \in Proxies} \ {k} :
                 /\ ProxySeen(metrics', x) = ProxySeen(metrics, x)
                 /\ ProxyBuffer(metrics', x) = ProxyBuffer(metrics, x)

\* C27: for the domain reservoir and for the proxy reservoir alike, each
\* recording first increments the key's own total-seen counter to n; if the
\* buffer is not full the sample is appended; otherwise an index j is drawn
\* from the whole range 0..n-1 and the sample replaces slot j only when
\* j < RESERVOIR_SIZE, the buffer being left unchanged when j >= RESERVOIR_SIZE.
C27_ReservoirStep == []EveryDrawPossible /\ [][RecordingIsAlgorithmR]_vars

\* the latest sample was dropped from the full buffer of the domain and
\* replaced a slot in the full buffer of its proxy key, after an earlier
\* sample had replaced a slot of the domain's buffer
C27_Witness ==
    /\ Len(hist) = MaxSamples
    /\ Len(DomainBuffer(metrics)) = RESERVOIR_SIZE
    /\ \A i \in 1 .. RESERVOIR_SIZE : DomainBuffer(metrics)[i] # 10 * Len(hist)
    /\ \E i \in 1 .. RESERVOIR_SIZE : DomainBuffer(metrics)[i] > 10 * RESERVOIR_SIZE
    /\ LET k == hist[Len(hist)].proxy_key
       IN /\ ProxySeen(metrics, k) > RESERVOIR_SIZE
          /\ \E i \in 1 .. RESERVOIR_SIZE : ProxyBuffer(metrics, k)[i] = 10 * Len(hist)

----------------------------------------------------------------------------
(* SpecAsync: the Request of Spec making async_get/async_post calls *)

\* a caller awaits an async_get/async_post call
AsyncGet ==
    /\ calls < MaxCalls
    /\ invocations + req.retries + 1 <= MaxInvocations
    /\ \E url \in {"https://a.com/page"} : AsyncStartCall(url)

\* the transport answers the async attempt in progress
AsyncTransport ==
    \E o \in Outcomes :
        \E save_raises \in (IF o.kind = "response" /\ Is2xx(o.status) /\ SaveCanRaise(req)
                             THEN BOOLEAN ELSE {FALSE}) :
            AsyncAttempt(o, save_raises)

NextAsync == AsyncGet \/ AsyncTransport

SpecAsync == Init /\ [][NextAsync]_vars

\* in the state of a call in progress, the blocking and the suspendable loop
\* body do the same for every outcome of the attempt: same Request (journal,
\* counters, stored response), same sleep, same result, same collector calls
SameLoopBody ==
    call.pc = "request" =>
        \A o \in Outcomes, save_raises \in BOOLEAN, t \in ClockReads(now) :
            AsyncLoopBody(req, call, o, save_raises, t) = LoopBody(req, call, o, save_raises, t)

\* C19: the blocking and the suspendable loop are the same state machine:
\* every step of an async_get/async_post call (its start, each attempt with
\* its sleep, its return) is the step get/post takes from the same state for
\* the same transport outcome, leaving the same Request, trace, result and
\* collector; and in every state of a call the two loop bodies agree on every
\* outcome.
C19_SameStateMachine == []SameLoopBody /\ [][Get \/ Transport]_vars

\* an async call with a collector ended after a retry and a recorded error
C19_Witness ==
    /\ HttpCallDone
    /\ Cardinality(TransportIdx) >= 2
    /\ SleepsOf(trace) # <<>>
    /\ req.errors # <<>>
    /\ req.has_metrics /\ metrics.request_count >= 1

----------------------------------------------------------------------------
(* SpecExceptions: get/post calls against a transport that raises every    *)
(* class of exception _classify_exception tells apart, or answers 200       *)

ExceptionClasses ==
    {"ReadTimeout", "ConnectError", "ProxyError", "TooManyRedirects", "DecodingError",
     "OSError"}

AllExceptions == {[cls |-> c, msg |-> [text |-> "failed", num |-> 0]] : c \in ExceptionClasses}

ExceptionOutcomes ==
    {[kind |-> "exception", exc |-> e] : e \in AllExceptions}
    \cup {[kind |-> "response", status |-> 200]}

InitExceptions ==
    /\ InitCollector
    /\ InitThreads
    /\ \E retries \in 0 .. MaxRetries, has_metrics \in BOOLEAN :
          InitClient(NewRequest(retries, 1, <<>>, FALSE, None, has_metrics))

\* the transport raises, or answers 200, on the attempt in progress
TransportRaises == \E o \in ExceptionOutcomes : Attempt(o, FALSE)

NextExceptions == Get \/ TransportRaises

SpecExceptions == InitExceptions /\ [][NextExceptions]_vars

\* the attempts of the latest call that raised an exception of kind k
RaisedOfKind(k) ==
    {i \in TransportIdx : RaisedAt(i) /\ classify_exception(trace[i].outcome.exc).type = k}

\* the kind the spec's table gives each class of exception
KindOfClass(cls) ==
    CASE cls = "ReadTimeout"      -> TIMEOUT
      [] cls \in {"ConnectError", "ProxyError"} -> PROXY
      [] cls = "TooManyRedirects" -> REDIRECT
      [] cls = "DecodingError"    -> REQUEST
      [] OTHER                    -> OTHER_TYPE

\* C14: an exception is classified as Timeout or Proxy (retryable) or as
\* Redirect, Request or Other (not retryable), and recorded under that kind;
\* a non-retryable exception ends the call on that attempt with None
\* whatever budget remains; a retryable one is followed by a sleep and the
\* next attempt while attempts remain and ends the call with None when none
\* remain: an endpoint that always times out is invoked retries + 1 times.
C14_ExceptionClassesAndRetry ==
    /\ \A e \in AllExceptions :
          /\ classify_exception(e).type = KindOfClass(e.cls)
          /\ classify_exception(e).retryable <=> classify_exception(e).type \in {TIMEOUT, PROXY}
    /\ \A k \in RequestErrorType :
          req.err[k] = req0.err[k] + Cardinality(RaisedOfKind(k))
    /\ \A i \in TransportIdx :
          RaisedAt(i) =>
             IF classify_exception(trace[i].outcome.exc).retryable
                /\ AttemptIndex(i) < req.retries
             THEN i < Len(trace) /\ trace[i + 1].ev = "sleep"
             ELSE i = Len(trace) /\ call.pc = "idle" /\ result.kind = "none"
    /\ \A i \in 1 .. Len(trace) :
          trace[i].ev = "sleep" =>
             \/ i = Len(trace) /\ call.pc = "request"
             \/ i < Len(trace) /\ trace[i + 1].ev = "transport"
    /\ (HttpCallDone /\ RaisedOfKind(TIMEOUT) = TransportIdx) =>
          /\ Cardinality(TransportIdx) = req.retries + 1
          /\ result.kind = "none"

\* an endpoint timed out on every attempt of a call with retries >= 2
C14_Witness ==
    /\ HttpCallDone
    /\ req.retries >= 2
    /\ RaisedOfKind(TIMEOUT) = TransportIdx
    /\ Cardinality(TransportIdx) = req.retries + 1
    /\ result.kind = "none"

\* what a call with retries = 0 leaves when its single attempt raised:
\* None returned, the counter of the exception's kind one higher and no
\* other counter changed, the last journal entry of that kind
SingleRaiseRecorded ==
    LET k == classify_exception(trace[1].outcome.exc).type
    IN /\ result.kind = "none"
       /\ req.err = [req0.err EXCEPT ![k] = @ + 1]
       /\ get_last_error(req.errors) # <<>>
       /\ get_last_error(req.errors)[1].type = k
       /\ is_proxy_error(req) <=> k = PROXY

\* C22: with retries = 0, a call whose single attempt raises an exception of
\* kind K returns None and increments the local counter of K and no other;
\* for a connection-refused error the kind is Proxy, is_proxy_error() is true
\* and should_abort(logger, proxy_on=True) is true.
C22_SingleRaise ==
    (HttpCallDone /\ req.retries = 0 /\ RaisedAt(1)) =>
        /\ SingleRaiseRecorded
        /\ trace[1].outcome.exc.cls = "ConnectError" =>
              /\ req.err[PROXY] = req0.err[PROXY] + 1
              /\ is_proxy_error(req)
              /\ should_abort(req, TRUE)

----------------------------------------------------------------------------
(* SpecTiming: _compute_timing applied to the timing lists a snapshot is    *)
(* computed from; hist is the list, result the timing computed from it      *)

\* 0.5, 1.0, 1.5 and 2.5 ms
SampleValues == {5, 10, 15, 25}

InitTiming ==
    /\ InitCollector
    /\ InitThreads
    /\ InitClient(NewRequest(0, 2, <<>>, FALSE, None, FALSE))

\* one more sample is in the list
AddSample ==
    /\ Len(hist) < MaxSamples
    /\ \E x \in SampleValues : hist' = Append(hist, x)
    /\ result' = Pending
    /\ UNCHANGED <<metrics, req, call, now, trace, req0, calls, invocations, threadVars>>

\* timing = self._compute_timing(all_timings)
ComputeTiming ==
    /\ result = Pending
    /\ result' = [kind |-> "timing", value |-> compute_timing(hist)]
    /\ UNCHANGED <<metrics, hist, req, call, now, trace, req0, calls, invocations, threadVars>>

NextTiming == AddSample \/ ComputeTiming

SpecTiming == InitTiming /\ [][NextTiming]_vars

\* the latencies 1.0, 2.0, .. 100.0 ms in recording order
OneToHundred == [i \in 1 .. 100 |-> 10 * i]

\* the sample at 0-based index idx of the ascending sort of data: the value
\* with at most idx samples below it and more than idx samples not above it
AtSortedIndex(data, idx) ==
    CHOOSE v \in {data[i] : i \in 1 .. Len(data)} :
        /\ Cardinality({i \in 1 .. Len(data) : data[i] < v}) <= idx
        /\ Cardinality({i \in 1 .. Len(data) : data[i] <= v}) > idx

\* min(floor(len * pct), len - 1)
PercentileIndex(len, pct) == Min((len * pct) \div 100, len - 1)

\* C23 as stated: the percentile of a non-empty sample list is the element
\* at index min(floor(len * pct), len - 1) of the ascending sort.
C23_PercentileIsTheElement ==
    result.kind = "timing" =>
        \A pct \in {50, 95, 99} :
            hist # <<>> =>
                10 * percentile(hist, pct) = AtSortedIndex(hist, PercentileIndex(Len(hist), pct))

\* C23: the percentile of a non-empty sample list is the element at index
\* min(floor(len * pct), len - 1) of the ascending sort, rounded to the
\* nearest whole millisecond (ties to even), and 0 for an empty list; the
\* timing computed holds these for 50, 95 and 99 percent; for the latencies
\* 1..100 it has p50 = 51, p95 = 96 and p99 = 100.
C23_PercentileRounded ==
    /\ result.kind = "timing" =>
          LET expect(pct) ==
                IF hist = <<>> THEN 0
                ELSE RoundHalfEven(AtSortedIndex(hist, PercentileIndex(Len(hist), pct)), 10)
          IN /\ result.value.p50_ms = expect(50)
             /\ result.value.p95_ms = expect(95)
             /\ result.value.p99_ms = expect(99)
    /\ compute_timing(OneToHundred).p50_ms = 51
    /\ compute_timing(OneToHundred).p95_ms = 96
    /\ compute_timing(OneToHundred).p99_ms = 100

\* a timing was computed from a full list whose percentile sample is not a
\* whole number of milliseconds
C23_Witness ==
    /\ result.kind = "timing"
    /\ Len(hist) = MaxSamples
    /\ AtSortedIndex(hist, PercentileIndex(Len(hist), 50)) = 15
    /\ result.value.p50_ms = 2
    /\ result.value.p99_ms = 2

----------------------------------------------------------------------------
(* SpecJournal: add_error calls on the journal of one Request, each reading *)
(* the clock; hist keeps the entries in the order of the calls               *)

JournalMessages == {[text |-> "timed out", num |-> 0], [text |-> "HTTP ", num |-> 500]}

InitJournal ==
    /\ InitCollector
    /\ InitThreads
    /\ InitClient(NewRequest(0, 2, <<>>, FALSE, None, FALSE))

\* exception_descriptor.add_error(error_type, message, url)
JournalAdd ==
    /\ Len(hist) < MaxOps
    /\ \E t \in ClockReads(now), error_type \in ErrorTypes, message \in JournalMessages,
          url \in Urls :
          /\ now' = t
          /\ req' = [req EXCEPT !.errors = add_error(@, t, error_type, message, url)]
          /\ hist' = Append(hist, [time |-> t, type |-> error_type,
                                   message |-> message, url |-> url])
    /\ UNCHANGED <<metrics, call, trace, result, req0, calls, invocations, threadVars>>

NextJournal == JournalAdd

SpecJournal == InitJournal /\ [][NextJournal]_vars

\* C12: the journal keeps every recorded error in insertion order: after k
\* add_error calls it holds the k entries in call order and get_last_error()
\* is the entry of the k-th call, also when calls read the same clock value.
C12_JournalKeepsEveryEntry ==
    /\ Len(req.errors) = Len(hist)
    /\ \A i \in 1 .. Len(hist) : i <= Len(req.errors) /\ req.errors[i] = hist[i]
    /\ Len(hist) > 0 => get_last_error(req.errors) = <<hist[Len(hist)]>>

----------------------------------------------------------------------------
(* SpecThreads: several threads call the methods of one collector.  Every  *)
(* method body runs inside "with self._lock"; the counter updates are a     *)
(* load followed by a store, which is where threads could interleave.       *)

\* the calls a thread can make
ThreadOps ==
    {[name |-> "record_request", domain |-> "a.com", proxy |-> p, status_code |-> sc]
        : p \in Proxies, sc \in Statuses}
    \cup {[name |-> "record_error", domain |-> "a.com", proxy |-> p, error_type |-> TIMEOUT]
        : p \in Proxies}
    \cup {[name |-> "is_target_unhealthy", url |-> "https://a.com/page"],
          [name |-> "log_stats"]}

\* entering "with self._lock" without waiting for the lock to be free
CanAcquire_NoLock == TRUE

\* "with self._lock" can be entered when no thread holds the lock
CanAcquire == lock = 0

\* a thread calls a collector method
TCall(t) ==
    /\ th[t].pc = "idle"
    /\ started < MaxThreadOps
    /\ \E op \in ThreadOps : th' = [th EXCEPT ![t].pc = "acquire", ![t].op = op]
    /\ started' = started + 1
    /\ UNCHANGED <<metrics, hist, clientVars, lock, lin>>

\* with self._lock: (entry)
TAcquire(t) ==
    /\ th[t].pc = "acquire"
    /\ CanAcquire
    /\ lock' = t
    /\ th' = [th EXCEPT ![t].pc =
                 IF th[t].op.name \in {"record_request", "record_error"}
                 THEN "load" ELSE "read"]
    /\ UNCHANGED <<metrics, hist, clientVars, lin, started>>

\* self.request_count += 1 / setattr(.. getattr(..) + 1): the load
TLoad(t) ==
    /\ th[t].pc = "load"
    /\ th' = [th EXCEPT ![t].pc = "store",
                        ![t].tmp = IF th[t].op.name = "record_request"
                                   THEN metrics.request_count
                                   ELSE metrics.err[th[t].op.error_type]]
    /\ UNCHANGED <<metrics, hist, clientVars, lock, lin, started>>

\* self.request_count += 1 / setattr(.. getattr(..) + 1): the store
TStore(t) ==
    /\ th[t].pc = "store"
    /\ metrics' = IF th[t].op.name = "record_request"
                  THEN [metrics EXCEPT !.request_count = th[t].tmp + 1]
                  ELSE IF HasCounter(th[t].op.error_type)
                  THEN [metrics EXCEPT !.err[th[t].op.error_type] = th[t].tmp + 1]
                  ELSE metrics
    /\ th' = [th EXCEPT ![t].pc = "rest"]
    /\ UNCHANGED <<hist, clientVars, lock, lin, started>>

\* the rest of record_request / record_error; the call takes effect in the
\* one-at-a-time history here
TRest(t) ==
    /\ th[t].pc = "rest"
    /\ LET op == th[t].op
       IN IF op.name = "record_request"
          THEN \E jd \in DomainDraws(metrics, op.domain), jp \in ProxyDraws(metrics, op.proxy),
                  e \in ElapsedMs :
                  /\ metrics' = RR_Rest(metrics, op.domain, op.proxy, op.status_code, e, jd, jp)
                  /\ lin' = record_request(lin, op.domain, op.proxy, op.status_code, e, jd, jp)
                  /\ th' = [th EXCEPT ![t].pc = "release", ![t].rr_done = @ + 1]
          ELSE /\ metrics' = record_target_failure(metrics, op.domain, ProxyKey(op.proxy))
               /\ lin' = record_error(lin, op.domain, op.proxy, op.error_type)
               /\ th' = [th EXCEPT ![t].pc = "release"]
    /\ UNCHANGED <<hist, clientVars, lock, started>>

\* the body of is_target_unhealthy / log_stats: the value it will return
\* (the bool of is_target_unhealthy is kept in a record, so that the values
\* returned by the two methods can be compared), and the value the
\* one-at-a-time history gives
TRead(t) ==
    /\ th[t].pc = "read"
    /\ LET op == th[t].op
       IN th' = [th EXCEPT ![t].pc = "release",
                           ![t].ret = IF op.name = "log_stats" THEN <<log_stats(metrics)>>
                                      ELSE <<[unhealthy |-> is_target_unhealthy(metrics, op.url)]>>,
                           ![t].expect = IF op.name = "log_stats" THEN <<log_stats(lin)>>
                                         ELSE <<[unhealthy |-> is_target_unhealthy(lin, op.url)]>>]
    /\ UNCHANGED <<metrics, hist, clientVars, lock, lin, started>>

\* an exit from the method body that keeps the lock
TRelease_KeepsLock(t) ==
    /\ th[t].pc = "release"
    /\ th' = [th EXCEPT ![t].pc = IF th[t].op.name = "log_stats" THEN "log" ELSE "idle"]
    /\ UNCHANGED <<metrics, hist, clientVars, lock, lin, started>>

\* with self._lock: (exit)
TRelease(t) ==
    /\ th[t].pc = "release"
    /\ lock' = 0
    /\ th' = [th EXCEPT ![t].pc = IF th[t].op.name = "log_stats" THEN "log" ELSE "idle"]
    /\ UNCHANGED <<metrics, hist, clientVars, lin, started>>

\* log_stats: logger.info(...) and return, after the lock was released
TLog(t) ==
    /\ th[t].pc = "log"
    /\ th' = [th EXCEPT ![t].pc = "idle"]
    /\ UNCHANGED <<metrics, hist, clientVars, lock, lin, started>>

InitThreadsSpec ==
    /\ InitCollector
    /\ InitClient(NewRequest(0, 2, <<>>, FALSE, None, TRUE))
    /\ InitThreads

NextThreads ==
    \E t \in Threads :
        \/ TCall(t) \/ TAcquire(t) \/ TLoad(t) \/ TStore(t)
        \/ TRest(t) \/ TRead(t) \/ TRelease(t) \/ TLog(t)

SpecThreads == InitThreadsSpec /\ [][NextThreads]_vars

\* the steps of thread t that do not wait for anything
TRun(t) == TLoad(t) \/ TStore(t) \/ TRest(t) \/ TRead(t) \/ TRelease(t) \/ TLog(t)

\* where each thread is (every step of a thread moves it)
Positions == [t \in Threads |-> th[t].pc]

\* one call of each method: a failed request and an error both run the
\* circuit-breaker helper
MethodOps ==
    {[name |-> "record_request", domain |-> "a.com", proxy |-> None, status_code |-> 500],
     [name |-> "record_error", domain |-> "a.com", proxy |-> None, error_type |-> TIMEOUT],
     [name |-> "is_target_unhealthy", url |-> "https://a.com/page"],
     [name |-> "log_stats"]}

\* a thread calls one of the four methods
TCallMethod(t) ==
    /\ th[t].pc = "idle"
    /\ started < MaxThreadOps
    /\ \E op \in MethodOps : th' = [th EXCEPT ![t].pc = "acquire", ![t].op = op]
    /\ started' = started + 1
    /\ UNCHANGED <<metrics, hist, clientVars, lock, lin>>

NextThreadsFair ==
    \E t \in Threads :
        \/ TCallMethod(t) \/ TAcquire(t) \/ TLoad(t) \/ TStore(t)
        \/ TRest(t) \/ TRead(t) \/ TRelease(t) \/ TLog(t)

\* the threads under fair scheduling: a running thread keeps running, and a
\* thread waiting for a lock that is released again and again gets it
SpecThreadsFair ==
    /\ InitThreadsSpec
    /\ [][NextThreadsFair]_vars
    /\ \A t \in Threads : WF_Positions(TRun(t)) /\ SF_Positions(TAcquire(t))

\* no thread is inside a collector method
Quiescent == \A t \in Threads : th[t].pc = "idle"

\* C5: whatever the interleaving of record_request, record_error,
\* is_target_unhealthy and log_stats calls of several threads, the collector
\* is in the state some one-at-a-time order of the same calls produces (and
\* the reading calls return what that order gives): no update is lost, and
\* after T threads each made M record_request calls request_count is T * M.
C5_Linearizable ==
    /\ lock = 0 => metrics = lin
    /\ \A t \in Threads : th[t].ret = th[t].expect
    /\ Quiescent =>
          /\ metrics.request_count = SumOver([t \in Threads |-> th[t].rr_done], Threads)
          /\ \A M \in 0 .. MaxThreadOps :
                (\A t \in Threads : th[t].rr_done = M)
                    => metrics.request_count = NumThreads * M

\* every thread completed the same positive number of record_request calls
C5_Witness ==
    /\ Quiescent
    /\ \E M \in 1 .. MaxThreadOps : \A t \in Threads : th[t].rr_done = M
    /\ metrics.request_count >= NumThreads

----------------------------------------------------------------------------
(* Properties of the collector, stated over the history of calls *)

\* index of the last 2xx recorded for the domain (0 when there is none)
LastSuccess(domain) ==
    LET S == {i \in 1 .. Len(hist) : hist[i].domain = domain /\ ~hist[i].failure}
    IN IF S = {} THEN 0 ELSE CHOOSE i \in S : \A k \in S : k <= i

\* the failures recorded for the domain since its last recorded 2xx
FailuresSince(domain) ==
    {i \in 1 .. Len(hist) :
        i > LastSuccess(domain) /\ hist[i].domain = domain /\ hist[i].failure}

\* C4: is_target_unhealthy(url) is true exactly when the failures recorded for
\* the url's domain since the last 2xx recorded for it number at least
\* max_target_failures and come from at least min_distinct_proxies distinct
\* proxy keys; in particular the domain is healthy right after a recorded 2xx.
C4_UnhealthyIffThresholds ==
    \A url \in Urls :
        LET F == FailuresSince(Netloc(url))
        IN /\ is_target_unhealthy(metrics, url) <=>
                /\ Cardinality(F) >= metrics.max_target_failures
                /\ Cardinality({hist[i].proxy_key : i \in F}) >= metrics.min_distinct_proxies
           /\ (LastSuccess(Netloc(url)) = Len(hist) /\ Len(hist) > 0)
                => ~is_target_unhealthy(metrics, url)

\* a domain is unhealthy from failures recorded after an earlier 2xx of its own
C4_Witness ==
    \E url \in Urls :
        /\ is_target_unhealthy(metrics, url)
        /\ LastSuccess(Netloc(url)) > 0

\* C6: every recorded outcome counts toward request_count: after a
\* record_request calls and b record_error calls request_count is a + b.
C6_EveryOutcomeCounted == metrics.request_count = Len(hist)

\* C7: in every log_stats snapshot total_errors <= total_requests and
\* error_rate_percent is 100 * total_errors / total_requests (0 when nothing
\* was recorded), within [0, 100]; one recorded 2xx and one recorded error
\* give total_requests 2, total_errors 1, error_rate_percent 50.
C7_SnapshotErrorRate ==
    LET s == log_stats(metrics)
    IN /\ s.total_errors <= s.total_requests
       /\ s.error_rate_percent =
             (IF s.total_requests = 0 THEN 0
              ELSE RoundHalfEven(10000 * s.total_errors, s.total_requests))
       /\ s.error_rate_percent \in 0 .. 10000
       /\ ( /\ Len(hist) = 2
            /\ \E i \in 1 .. 2 : hist[i].op = "record_request" /\ ~hist[i].failure
            /\ \E i \in 1 .. 2 : hist[i].op = "record_error" )
          => (s.total_requests = 2 /\ s.total_errors = 1 /\ s.error_rate_percent = 5000)

\* record_request calls made for a domain / through a proxy key
SeenForDomain(domain) ==
    Cardinality({i \in 1 .. Len(hist) :
                    hist[i].op = "record_request" /\ hist[i].domain = domain})
SeenForProxy(proxy_key) ==
    Cardinality({i \in 1 .. Len(hist) :
                    hist[i].op = "record_request" /\ hist[i].proxy_key = proxy_key})

\* C8: each reservoir (per domain and per proxy key) holds at most
\* RESERVOIR_SIZE samples, its occupancy is min(total seen, RESERVOIR_SIZE), and
\* the total-seen counter equals the number of recordings for the key, so it
\* keeps growing after the buffer is full.
C8_ReservoirOccupancy ==
    /\ \A d \in Domains :
          LET seen == DictGet(metrics.domain_request_counts, d, 0)
              occ == Len(DictGet(metrics.domain_timings, d, <<>>))
          IN /\ seen = SeenForDomain(d)
             /\ occ <= RESERVOIR_SIZE
             /\ occ = Min(seen, RESERVOIR_SIZE)
    /\ \A p \in Proxies :
          LET pstat == DictGet(metrics.proxy_stats, ProxyKey(p),
                               [count |-> 0, success |-> 0, timings |-> <<>>])
          IN /\ pstat.count = SeenForProxy(ProxyKey(p))
             /\ Len(pstat.timings) <= RESERVOIR_SIZE
             /\ Len(pstat.timings) = Min(pstat.count, RESERVOIR_SIZE)

\* more than RESERVOIR_SIZE samples were recorded for one domain and for one
\* proxy key, and both buffers hold exactly RESERVOIR_SIZE
C8_Witness ==
    /\ \E d \in DOMAIN metrics.domain_timings :
          /\ metrics.domain_request_counts[d] > RESERVOIR_SIZE
          /\ Len(metrics.domain_timings[d]) = RESERVOIR_SIZE
    /\ \E k \in DOMAIN metrics.proxy_stats :
          /\ metrics.proxy_stats[k].count > RESERVOIR_SIZE
          /\ Len(metrics.proxy_stats[k].timings) = RESERVOIR_SIZE

\* C30: in every reachable collector state a circuit-breaker entry exists
\* for a domain only if at least one failure (record_error, or record_request
\* with a non-2xx status) was recorded for it since its last recorded 2xx,
\* and every existing entry has failures >= 1 and 1 <= number of distinct
\* proxy keys <= failures.
C30_BreakerEntries ==
    \A d \in DOMAIN metrics.target_failures :
        LET entry == metrics.target_failures[d]
        IN /\ d \in Domains
           /\ FailuresSince(d) # {}
           /\ entry.failures >= 1
           /\ 1 <= Cardinality(entry.proxies)
           /\ Cardinality(entry.proxies) <= entry.failures

\* a domain failed, then succeeded, then failed again: its entry counts the
\* one failure recorded after the 2xx
C30_Witness ==
    \E d \in DOMAIN metrics.target_failures :
        /\ LastSuccess(d) > 1
        /\ \E i \in 1 .. LastSuccess(d) - 1 : hist[i].domain = d /\ hist[i].failure
        /\ metrics.target_failures[d].failures = 1
        /\ Cardinality(FailuresSince(d)) = 1

\* the breaker entry of a domain, with no failures when there is none
BreakerEntry(m, domain) ==
    DictGet(m.target_failures, domain, [failures |-> 0, proxies |-> {}])

\* the url of the model with the domain
UrlOf(domain) == CHOOSE url \in Urls : Netloc(url) = domain

\* C31: once is_target_unhealthy is true for a domain it stays true across
\* every later operation until a 2xx is recorded for that same domain, and
\* recording any outcome for a different domain never changes a domain's
\* failure count, distinct-proxy set or health.
C31_UnhealthyUntilOwnSuccess ==
    [][Len(hist') = Len(hist) + 1 =>
         LET op == hist'[Len(hist')]
         IN \A d \in Domains :
               /\ (is_target_unhealthy(metrics, UrlOf(d)) /\ ~(op.domain = d /\ ~op.failure))
                     => is_target_unhealthy(metrics', UrlOf(d))
               /\ op.domain # d =>
                     /\ BreakerEntry(metrics', d) = BreakerEntry(metrics, d)
                     /\ (d \in DOMAIN metrics'.target_failures) =
                           (d \in DOMAIN metrics.target_failures)
                     /\ is_target_unhealthy(metrics', UrlOf(d)) =
                           is_target_unhealthy(metrics, UrlOf(d))
    ]_vars

\* a domain became unhealthy, a 2xx was then recorded for the other domain,
\* a further failure for the first, and it is still unhealthy
C31_Witness ==
    /\ Len(hist) = 3
    /\ hist[1].domain = "a.com" /\ hist[1].failure
    /\ hist[2].domain = "b.com" /\ ~hist[2].failure
    /\ hist[3].domain = "a.com" /\ hist[3].failure /\ hist[3].proxy_key # hist[1].proxy_key
    /\ metrics.max_target_failures = 1 /\ metrics.min_distinct_proxies = 1
    /\ is_target_unhealthy(metrics, "https://a.com/page")
    /\ ~is_target_unhealthy(metrics, "https://b.com/data")

\* the sums of a collector state agree
CountsAgree(m) ==
    /\ m.request_count = DictSum(m.domain_request_counts)
    /\ m.request_count = SumOver([k \in DOMAIN m.proxy_stats |-> m.proxy_stats[k].count],
                                 DOMAIN m.proxy_stats)
    /\ DOMAIN m.domain_status_codes = DOMAIN m.domain_request_counts
    /\ \A d \in DOMAIN m.domain_request_counts :
          DictSum(m.domain_status_codes[d]) = m.domain_request_counts[d]
    /\ \A k \in DOMAIN m.proxy_stats : m.proxy_stats[k].success <= m.proxy_stats[k].count

\* the sums of a log_stats snapshot agree
SnapshotAgrees(stats) ==
    /\ stats.total_requests =
          SumOver([d \in DOMAIN stats.by_domain |-> stats.by_domain[d].count],
                  DOMAIN stats.by_domain)
    /\ stats.total_requests =
          SumOver([k \in DOMAIN stats.by_proxy |-> stats.by_proxy[k].count],
                  DOMAIN stats.by_proxy)
    /\ \A d \in DOMAIN stats.by_domain :
          DictSum(stats.by_domain[d].status_codes) = stats.by_domain[d].count
    /\ \A k \in DOMAIN stats.by_proxy : stats.by_proxy[k].success <= stats.by_proxy[k].count
    /\ stats.total_errors = DictSum(stats.error_breakdown)

\* thread t holds the snapshot its log_stats call is about to return
HoldsSnapshot(t) == th[t].op.name = "log_stats" /\ th[t].pc \in {"release", "log"}

WithinBudget ==
    /\ Cardinality(TransportIdx) <= req.retries + 1
    /\ Len(SleepsOf(trace)) <= req.retries

\* C36: every get/post call terminates: for every retries >= 0 and every
\* sequence of attempt outcomes (statuses and exceptions draw on one shared
\* attempt budget) the call returns after at most retries + 1 transport
\* invocations and at most retries sleeps, provided each transport
\* invocation and each sleep itself returns.
C36_CallTerminates ==
    /\ (call.pc = "request") ~> (call.pc = "idle" /\ result # Pending)
    /\ []WithinBudget

\* a call with retries = 3 that spent the whole budget, on retryable
\* statuses and retryable exceptions alike, and returned
C36_Witness ==
    /\ HttpCallDone
    /\ req.retries = 3
    /\ Cardinality(TransportIdx) = 4
    /\ Len(SleepsOf(trace)) = 3
    /\ \E i \in TransportIdx : trace[i].outcome.kind = "response"
    /\ \E i \in TransportIdx : trace[i].outcome.kind = "exception"

\* the positions inside "with self._lock"
InsideLock == {"load", "store", "rest", "read", "release"}

\* a thread holds the lock exactly while it is inside the with-block of the
\* one method it is running: it does not hold it when it asks for it, when
\* it emits the log record or when it has returned
LockDiscipline ==
    \A t \in Threads : (lock = t) <=> (th[t].pc \in InsideLock)

\* some thread that is inside a method can take a step
SomeThreadCanRun ==
    Quiescent \/ \E t \in Threads : ENABLED (TAcquire(t) \/ TRun(t))

\* C37: the collector cannot deadlock: record_request, record_error,
\* is_target_unhealthy and log_stats each acquire the single non-reentrant
\* lock once, never while already holding it (the circuit-breaker helper
\* runs with the lock held and does not acquire it), release it on every
\* exit path and emit the log record only after releasing it, so under fair
\* scheduling every invoked operation eventually returns.
C37_NoDeadlock ==
    /\ [](LockDiscipline /\ SomeThreadCanRun)
    /\ \A t \in Threads : (th[t].pc # "idle") ~> (th[t].pc = "idle")

\* a thread waits for the lock while another, inside record_error, is about
\* to run the circuit-breaker helper with the lock held
C37_Witness ==
    \E t \in Threads, u \in Threads :
        /\ th[t].pc = "acquire"
        /\ th[u].pc = "rest"
        /\ th[u].op.name = "record_error"
        /\ lock = u

\* the step that is one attempt of a get/post call
AttemptStep == invocations' = invocations + 1

\* the outcome of the attempt an AttemptStep made
AttemptOutcome ==
    LET tr == trace'
        idx == {i \in 1 .. Len(tr) : tr[i].ev = "transport"}
    IN tr[CHOOSE i \in idx : \A k \in idx : k <= i].outcome

\* what the step adds to the local request_count
CountedByStep ==
    IF AttemptStep
    THEN (IF AttemptOutcome.kind = "response" THEN 1 ELSE 0)
    ELSE IF SoapStep
    THEN (IF trace'[1].outcome.kind = "value" THEN 1 ELSE 0)
    ELSE 0

\* the local statistics divide the errors by the local request_count
LocalErrorRate ==
    LET stats == Request_log_stats(req, metrics)
        errors == SumOver(req.err, RequestErrorType)
    IN ~req.has_metrics =>
          /\ stats.total_requests = req.request_count
          /\ stats.total_errors = errors
          /\ stats.error_rate_percent =
                (IF req.request_count > 0
                 THEN RoundHalfEven(10000 * errors, req.request_count) ELSE 0)

\* C38: the local request_count of a Request grows by exactly one for every
\* attempt that received a response (any status, retried or terminal) and
\* for every successful soap_call, and is unchanged by attempts that raised;
\* the local statistics therefore compute error_rate_percent as
\* 100 * total_errors / request_count (to two decimals) when
\* request_count > 0 and 0 otherwise.
C38_LocalRequestCount ==
    /\ [][req'.request_count = req.request_count + CountedByStep]_vars
    /\ []LocalErrorRate

\* after a soap_call that returned a value the Request has counted two
\* requests and three errors: the local statistics report 150 percent
C38_Witness ==
    /\ ~req.has_metrics
    /\ call.pc = "idle"
    /\ Len(trace) = 1 /\ trace[1].ev = "soap" /\ trace[1].outcome.kind = "value"
    /\ req.request_count = 2
    /\ Request_log_stats(req, metrics).total_errors = 3
    /\ Request_log_stats(req, metrics).error_rate_percent = 15000

====
